---- MODULE Spec2Model ----
(***************************************************************************)
(* Model of the analysis engine of cursor_cost_explorer: the six analyzers *)
(* (CostAnalyzer, ModelEfficiencyAnalyzer, PlanOptimizer,                   *)
(* CacheEfficiencyAnalyzer, UsagePatternAnalyzer,                           *)
(* SavingsOpportunitiesAnalyzer) and AnalysisEngine.analyze.                *)
(*                                                                         *)
(* Numbers.  JavaScript numbers are modelled as exact rationals <<n, d>>   *)
(* (d > 0, lowest terms).  Money is in dollars; a record's cost is held in *)
(* whole cents and converted with Dollars.  Texts that the code assembles  *)
(* for people (titles, reasoning sentences, tips) are modelled by the      *)
(* identifier of the sentence, without the formatted numbers.              *)
(***************************************************************************)
EXTENDS Integers, Sequences, FiniteSets, TLC

VARIABLES
    records,    \* the caller's event collection: [present, items]
    registry,   \* MODEL_REGISTRY, the module-level model table
    result,     \* what the last invocation returned or threw
    now,        \* the clock read by new Date(); one tick per invocation
    firstRun    \* history: the first result AnalysisEngine.analyze returned

vars == <<records, registry, result, now, firstRun>>

----------------------------------------------------------------------------
(* Bounds of the model *)

\* the longest small collection, the number of invocations in a run, and the
\* number of requests of each expensive model in a large collection
MaxLen == 2
MaxCalls == 3
BulkCopies == 4
\* the longest collection of the cost-summary runs
MaxSummaryLen == 3
\* the largest numbers of cheap and of expensive requests in the collections
\* of the plan runs
MaxCheap == 18
MaxPremium == 2
\* the size of the largest collection and the largest number of requests
\* that failed in the collections of the error-rate runs
MaxRequests == 100
MaxErrored == 10

\* the requests of the expensive model, in blocks of BulkCopies, in the
\* collections of the opportunity analysis
MaxBlocks == 2

\* the days the collections of the pattern analysis span (MaxDays or one
\* less), and the requests of a weekday morning added to them
MaxDays == 8
MaxExtra == 3

\* the most days in the collections of the top-five lists
MaxTopDays == 7

----------------------------------------------------------------------------
(* JavaScript numbers as exact rationals *)

Abs(x) == IF x < 0 THEN -x ELSE x

RECURSIVE GCD(_, _)
GCD(a, b) == IF b = 0 THEN a ELSE GCD(b, a % b)

Rat(n, d) ==
    LET g == GCD(Abs(n), Abs(d))
        s == IF d < 0 THEN -1 ELSE 1
    IN  <<s * (n \div g), s * (d \div g)>>

Num(k) == <<k, 1>>
Zero == Num(0)
LCM(a, b) == (a \div GCD(a, b)) * b
\* sums and comparisons over the least common denominator, products reduced
\* crosswise first, so that intermediate values stay small
RAdd(a, b) ==
    IF a[2] = b[2] THEN Rat(a[1] + b[1], a[2])
    ELSE LET l == LCM(a[2], b[2])
         IN  Rat(a[1] * (l \div a[2]) + b[1] * (l \div b[2]), l)
RSub(a, b) == RAdd(a, <<-b[1], b[2]>>)
RMul(a, b) ==
    LET g1 == GCD(Abs(a[1]), b[2])
        g2 == GCD(Abs(b[1]), a[2])
    IN  <<(a[1] \div g1) * (b[1] \div g2), (a[2] \div g2) * (b[2] \div g1)>>
\* division by a non-zero number
RDiv(a, b) ==
    IF b[1] < 0 THEN RMul(a, <<-b[2], -b[1]>>) ELSE RMul(a, <<b[2], b[1]>>)
RLt(a, b) ==
    IF a[2] = b[2] THEN a[1] < b[1]
    ELSE LET l == LCM(a[2], b[2])
         IN  a[1] * (l \div a[2]) < b[1] * (l \div b[2])
RLe(a, b) == ~RLt(b, a)
RGt(a, b) == RLt(b, a)
RGe(a, b) == RLe(b, a)
RMax(a, b) == IF RLt(a, b) THEN b ELSE a
RMin(a, b) == IF RLt(b, a) THEN b ELSE a
\* Math.floor and Math.round (round half up) to an integer
RFloor(a) == a[1] \div a[2]
RRound(a) == (2 * a[1] + a[2]) \div (2 * a[2])
\* a cost held in cents, as dollars
Dollars(cents) == Rat(cents, 100)

\* array.reduce((sum, v) => sum + v, 0); the sum is exact, so it is taken
\* half by half
RECURSIVE RSum(_)
RSum(s) ==
    IF s = <<>> THEN Zero
    ELSE IF Len(s) = 1 THEN s[1]
    ELSE RAdd(RSum(SubSeq(s, 1, Len(s) \div 2)),
              RSum(SubSeq(s, Len(s) \div 2 + 1, Len(s))))

RECURSIVE ISum(_)
ISum(s) ==
    IF s = <<>> THEN 0
    ELSE IF Len(s) = 1 THEN s[1]
    ELSE ISum(SubSeq(s, 1, Len(s) \div 2)) + ISum(SubSeq(s, Len(s) \div 2 + 1, Len(s)))

----------------------------------------------------------------------------
(* Sequences: Array.prototype.filter, map, slice(0, n) and the stable sort *)

\* the array with the elements a[1], ..., a[n], each computed once
Array(a) == a \o <<>>

\* const name = value; ...: Body with the value, computed once, for its name
With(value, Body(_)) == Body(value)

Filter(s, Test(_)) == SelectSeq(s, Test)
Map(s, F(_)) == Array([i \in 1..Len(s) |-> F(s[i])])
Slice(s, n) == SubSeq(s, 1, IF Len(s) < n THEN Len(s) ELSE n)

\* the place of index k in the sorted array: after every index with a larger
\* key and after the earlier indices with an equal key
PlaceDesc(k, keys) ==
    1 + Cardinality({j \in 1..Len(keys) :
                        RGt(keys[j], keys[k]) \/ (keys[j] = keys[k] /\ j < k)})

\* Array.prototype.sort((a, b) => key(b) - key(a)): the order of the indices
\* of the array, largest key first; stable, so equal keys keep their order
OrderDesc(keys) ==
    LET place == Array([k \in 1..Len(keys) |-> PlaceDesc(k, keys)])
    IN  Array([p \in 1..Len(keys) |-> CHOOSE k \in 1..Len(keys) : place[k] = p])

\* the array sorted by descending key
SortDesc(s, Key(_)) ==
    LET perm == OrderDesc(Array([i \in 1..Len(s) |-> Key(s[i])]))
    IN  Array([i \in 1..Len(s) |-> s[perm[i]]])

\* the array sorted by ascending key
SortAsc(s, Key(_)) ==
    LET perm == OrderDesc(Array([i \in 1..Len(s) |-> RSub(Zero, Key(s[i]))]))
    IN  Array([i \in 1..Len(s) |-> s[perm[i]]])

----------------------------------------------------------------------------
(* Strings: String.prototype.toLowerCase and includes *)

UpperLetters == "ABCDEFGHIJKLMNOPQRSTUVWXYZ"
LowerLetters == "abcdefghijklmnopqrstuvwxyz"

LowerChar(c) ==
    IF \E i \in 1..Len(UpperLetters) : SubSeq(UpperLetters, i, i) = c
    THEN LET i == CHOOSE j \in 1..Len(UpperLetters) : SubSeq(UpperLetters, j, j) = c
         IN  SubSeq(LowerLetters, i, i)
    ELSE c

RECURSIVE LowerFrom(_, _)
\* the characters of s from position i on, in lower case
LowerFrom(s, i) ==
    IF i > Len(s) THEN "" ELSE LowerChar(SubSeq(s, i, i)) \o LowerFrom(s, i + 1)

toLowerCase(s) == LowerFrom(s, 1)

includes(s, sub) ==
    \E i \in 1..(Len(s) - Len(sub) + 1) : SubSeq(s, i, i + Len(sub) - 1) = sub

----------------------------------------------------------------------------
(* The events the inputs are made of *)

Event(day, hour, kind, model, cost, totalTokens, cacheRead, input, output) ==
    [date |-> [day |-> day, hour |-> hour, tz |-> 0],
     kind |-> kind, model |-> model, cost |-> cost, totalTokens |-> totalTokens,
     cacheRead |-> cacheRead, input |-> input, output |-> output]

\* cost in cents; day 0 is a Friday, day 1 a Saturday
CheapEvent == Event(0, 10, "Included", "grok-code-fast-1", 10, 1000000, 700000, 300000, 0)
ErroredEvent == Event(1, 22, "Errored, Not Charged", "custom-thinking", 10, 2000, 0, 1000, 1000)
AbortedEvent == Event(1, 9, "Aborted, Not Charged", "auto", 0, 0, 0, 0, 0)

\* the events of the small collections
EventDomain == {
    CheapEvent,
    Event(0, 20, "On-Demand", "claude-4-opus", 350, 1000, 0, 500, 500),
    Event(1, 21, "Usage-based", "claude-4.5-sonnet-thinking", 600, 2000, 1000, 500, 500),
    ErroredEvent,
    AbortedEvent }

\* one request of each expensive model of the large collections
PremiumEvents == <<
    Event(0, 20, "On-Demand", "claude-4-opus", 350, 1000, 0, 500, 500),
    Event(0, 21, "On-Demand", "claude-4.5-sonnet-thinking", 600, 2000, 1000, 500, 500),
    Event(0, 11, "on-demand", "claude-4.5-sonnet", 200, 1000, 0, 500, 500),
    Event(0, 12, "On-Demand", "gemini-2.5-pro", 200, 1000, 0, 500, 500),
    Event(0, 13, "On-Demand", "composer-1", 120, 1000, 0, 500, 500) >>

\* one request of each kind string of the kind collections: the kinds of the
\* export, in other letter case, a kind that names no bucket and kinds that
\* name two
KindEvent(kind) == Event(0, 10, kind, "grok-code-fast-1", 10, 1000, 0, 500, 500)

KindEvents == {
    KindEvent("Included"),
    KindEvent("INCLUDED IN PRO"),
    KindEvent("On-Demand"),
    KindEvent("Errored, Not Charged"),
    KindEvent("Aborted, Not Charged"),
    KindEvent("Usage-based"),
    KindEvent("Errored, Included"),
    KindEvent("Aborted On-Demand") }

\* the kind and model strings that occur in the inputs
AllEvents ==
    EventDomain \cup {PremiumEvents[i] : i \in 1..Len(PremiumEvents)} \cup KindEvents
KindStrings == {e.kind : e \in AllEvents}
ModelStrings == {e.model : e \in AllEvents}

----------------------------------------------------------------------------
(* The model registry (models/registry.js) *)

\* the entries in the order Object.entries yields them; useCase is the
\* identifier of the use-case sentence
MODEL_REGISTRY == <<
    [name |-> "grok-code-fast-1", category |-> "cost_efficient",
     useCase |-> "quick", isThinkingModel |-> FALSE],
    [name |-> "gemini-2.5-pro", category |-> "cost_efficient",
     useCase |-> "general", isThinkingModel |-> FALSE],
    [name |-> "composer-1", category |-> "specialized",
     useCase |-> "multi-file", isThinkingModel |-> FALSE],
    [name |-> "claude-4.5-sonnet", category |-> "specialized",
     useCase |-> "complex", isThinkingModel |-> FALSE],
    [name |-> "claude-4.5-sonnet-thinking", category |-> "premium",
     useCase |-> "architecture", isThinkingModel |-> TRUE],
    [name |-> "claude-4-opus", category |-> "premium",
     useCase |-> "hardest", isThinkingModel |-> FALSE] >>

NoInfo == [name |-> "", category |-> "", useCase |-> "", isThinkingModel |-> FALSE]

\* the first index of reg whose entry satisfies Test, 0 if none
FirstIndex(reg, Test(_)) ==
    IF \E i \in 1..Len(reg) : Test(reg[i])
    THEN CHOOSE i \in 1..Len(reg) :
            Test(reg[i]) /\ \A j \in 1..(i - 1) : ~Test(reg[j])
    ELSE 0

\* getModelInfo: exact key, then case-insensitive key, then substring either
\* way; NoInfo stands for null
getModelInfo(reg, modelName) ==
    LET lowerModelName == toLowerCase(modelName)
        Exact(e) == e.name = modelName
        NoCase(e) == toLowerCase(e.name) = lowerModelName
        Partial(e) == \/ includes(lowerModelName, toLowerCase(e.name))
                      \/ includes(toLowerCase(e.name), lowerModelName)
        i1 == FirstIndex(reg, Exact)
        i2 == FirstIndex(reg, NoCase)
        i3 == FirstIndex(reg, Partial)
    IN  IF i1 # 0 THEN reg[i1]
        ELSE IF i2 # 0 THEN reg[i2]
        ELSE IF i3 # 0 THEN reg[i3]
        ELSE NoInfo

\* the lookups in the registry as shipped, for the model strings of the inputs
ShippedModelInfo == [m \in ModelStrings |-> getModelInfo(MODEL_REGISTRY, m)]
ModelInfoOf(reg, modelName) ==
    IF reg = MODEL_REGISTRY /\ modelName \in ModelStrings THEN ShippedModelInfo[modelName]
    ELSE getModelInfo(reg, modelName)

NameSaysThinking == [m \in ModelStrings |-> includes(toLowerCase(m), "thinking")]

isThinkingModel(reg, modelName) ==
    LET info == ModelInfoOf(reg, modelName)
    IN  IF info # NoInfo THEN info.isThinkingModel
        ELSE NameSaysThinking[modelName]

\* getModelRecommendation: the sentence, by its identifier
getModelRecommendation(reg, modelName, calculatedCategory) ==
    LET info == ModelInfoOf(reg, modelName)
    IN  IF info # NoInfo /\ info.useCase # "" THEN info.useCase
        ELSE IF calculatedCategory = "cost_efficient" THEN "fallback-general"
        ELSE IF calculatedCategory = "specialized" THEN "fallback-complex"
        ELSE "fallback-sparingly"

----------------------------------------------------------------------------
(* UsageRecord (entities/UsageRecord.js) *)

\* kind.toLowerCase().includes(...), for the kind strings of the inputs
KindIncluded == [k \in KindStrings |-> includes(toLowerCase(k), "included")]
KindOnDemand == [k \in KindStrings |-> includes(toLowerCase(k), "on-demand")]
KindErrored ==
    [k \in KindStrings |->
        includes(toLowerCase(k), "errored") \/ includes(toLowerCase(k), "aborted")]

isIncluded(r) == KindIncluded[r.kind]
isOnDemand(r) == KindOnDemand[r.kind]
isErrored(r) == KindErrored[r.kind]

\* date.split('T')[0]: the calendar day as written in the timestamp
getDateOnly(r) == r.date.day

\* new Date(date): the UTC calendar day, hour and weekday of the instant;
\* tz is the offset (hours) written in the timestamp, 0 for 'Z'
utcHours(r) == r.date.hour - r.date.tz
getUTCDay(r) == r.date.day + (utcHours(r) \div 24)
getUTCHours(r) == utcHours(r) % 24
\* Date.getUTCDay: day 0 is 2025-10-10, a Friday (weekday 5; Sunday is 0)
getUTCWeekday(r) == (getUTCDay(r) + 5) % 7

CostCents(rs) == ISum(Array([i \in 1..Len(rs) |-> rs[i].cost]))
\* records.reduce((sum, r) => sum + r.cost, 0)
SumCost(rs) == Dollars(CostCents(rs))
SumField(rs, F(_)) == ISum(Array([i \in 1..Len(rs) |-> F(rs[i])]))

----------------------------------------------------------------------------
(* Grouping: for (record of records) groups[key].push(record) *)

\* the distinct values of keys, in the order of their first occurrence
\* (the key order of Object.entries on the groups object)
FirstSeen(keys) ==
    LET IsFirst(i) == \A j \in 1..(i - 1) : keys[j] # keys[i]
        firsts == SelectSeq(Array([i \in 1..Len(keys) |-> i]), IsFirst)
    IN  Array([i \in 1..Len(firsts) |-> keys[firsts[i]]])

ModelsOf(rs) == FirstSeen(Array([i \in 1..Len(rs) |-> rs[i].model]))
DaysOf(rs) == FirstSeen(Array([i \in 1..Len(rs) |-> getDateOnly(rs[i])]))
RecordsOfModel(rs, m) == LET Is(r) == r.model = m IN SelectSeq(rs, Is)
RecordsOfDay(rs, d) == LET Is(r) == getDateOnly(r) = d IN SelectSeq(rs, Is)

----------------------------------------------------------------------------
(* ModelUsage (entities/ModelUsage.js) *)

TotalTokensOf(r) == r.totalTokens
InputOf(r) == r.input
OutputOf(r) == r.output
CacheReadOf(r) == r.cacheRead

\* constructor: the aggregated statistics of one model's records
ModelUsage(model, rs) ==
    [model |-> model,
     totalCost |-> SumCost(rs),
     requestCount |-> Len(rs),
     totalTokens |-> SumField(rs, TotalTokensOf),
     totalInputTokens |-> SumField(rs, InputOf),
     totalOutputTokens |-> SumField(rs, OutputOf),
     totalCacheRead |-> SumField(rs, CacheReadOf)]

Million == 1000000

MU_getCostPerMillionTokens(mu) ==
    IF mu.totalTokens = 0 THEN Zero
    ELSE RMul(RDiv(mu.totalCost, Num(mu.totalTokens)), Num(Million))

MU_getCostPerMillionOutputTokens(mu) ==
    IF mu.totalOutputTokens = 0 THEN Zero
    ELSE RMul(RDiv(mu.totalCost, Num(mu.totalOutputTokens)), Num(Million))

MU_getAverageCostPerRequest(mu) ==
    IF mu.requestCount = 0 THEN Zero
    ELSE RDiv(mu.totalCost, Num(mu.requestCount))

MU_getCacheEfficiency(mu) ==
    IF mu.totalTokens = 0 THEN Zero
    ELSE RMul(Rat(mu.totalCacheRead, mu.totalTokens), Num(100))

\* a variant that yields the share as a fraction of 1
getPercentageOfTotal_Fraction(mu, totalCost) ==
    IF totalCost = Zero THEN Zero
    ELSE RDiv(mu.totalCost, totalCost)

getPercentageOfTotal(mu, totalCost) ==
    IF totalCost = Zero THEN Zero
    ELSE RMul(RDiv(mu.totalCost, totalCost), Num(100))

\* a variant that categorises by the cost per million output tokens
getCategory_OutputBasis(mu) ==
    LET costPerM == MU_getCostPerMillionOutputTokens(mu)
    IN  IF RLt(costPerM, Num(50)) THEN "cost_efficient"
        ELSE IF RLt(costPerM, Num(500)) THEN "specialized"
        ELSE "premium"

getCategory(mu) ==
    LET costPerM == MU_getCostPerMillionTokens(mu)
    IN  IF RLt(costPerM, Num(50)) THEN "cost_efficient"
        ELSE IF RLt(costPerM, Num(500)) THEN "specialized"
        ELSE "premium"

MU_isThinkingModel(reg, mu) == isThinkingModel(reg, mu.model)

----------------------------------------------------------------------------
(* DailyUsage (entities/DailyUsage.js): constructor and toObject *)

DailyUsage(date, rs) ==
    LET cost == SumCost(rs)
        total_tokens == SumField(rs, TotalTokensOf)
    IN  [date |-> date,
         cost |-> cost,
         request_count |-> Len(rs),
         total_tokens |-> total_tokens,
         average_cost_per_request |->
            IF Len(rs) = 0 THEN Zero ELSE RDiv(cost, Num(Len(rs))),
         average_tokens_per_request |->
            IF Len(rs) = 0 THEN Zero ELSE Rat(total_tokens, Len(rs))]

----------------------------------------------------------------------------
(* CostAnalyzer (analyzers/cost.js) *)

SetMin(S) == CHOOSE x \in S : \A y \in S : x <= y
SetMax(S) == CHOOSE x \in S : \A y \in S : y <= x

\* the empty string that stands for a missing date
NoDate == -1

\* a variant that divides by the number of dates instead of distinct dates
calculateSummary_PerDate(rs) ==
    LET totalCost == SumCost(rs)
        totalRequests == Len(rs)
        uniqueDates == {getDateOnly(rs[i]) : i \in 1..Len(rs)}
        uniqueDays == Len(rs)
        days == IF uniqueDays > 0 THEN uniqueDays ELSE 1
    IN  [period |-> [start |-> IF uniqueDates = {} THEN NoDate ELSE SetMin(uniqueDates),
                     end |-> IF uniqueDates = {} THEN NoDate ELSE SetMax(uniqueDates),
                     days |-> uniqueDays],
         cost |-> [total |-> totalCost,
                   daily_average |-> RDiv(totalCost, Num(days))],
         usage |-> [total_requests |-> totalRequests,
                    requests_per_day |-> Rat(totalRequests, days),
                    total_tokens |-> SumField(rs, TotalTokensOf)]]

calculateSummary(rs) ==
    LET totalCost == SumCost(rs)
        totalRequests == Len(rs)
        uniqueDates == {getDateOnly(rs[i]) : i \in 1..Len(rs)}
        uniqueDays == Cardinality(uniqueDates)
        days == IF uniqueDays > 0 THEN uniqueDays ELSE 1
    IN  [period |-> [start |-> IF uniqueDates = {} THEN NoDate ELSE SetMin(uniqueDates),
                     end |-> IF uniqueDates = {} THEN NoDate ELSE SetMax(uniqueDates),
                     days |-> uniqueDays],
         cost |-> [total |-> totalCost,
                   daily_average |-> RDiv(totalCost, Num(days))],
         usage |-> [total_requests |-> totalRequests,
                    requests_per_day |-> Rat(totalRequests, days),
                    total_tokens |-> SumField(rs, TotalTokensOf)]]

BreakdownEntry(rs, model, totalCost) ==
    LET modelUsage == ModelUsage(model, RecordsOfModel(rs, model))
    IN  [model |-> model,
         total_cost |-> modelUsage.totalCost,
         request_count |-> modelUsage.requestCount,
         percentage |-> getPercentageOfTotal(modelUsage, totalCost)]

TotalCostOf(e) == e.total_cost

calculateBreakdownByModel(rs) ==
    LET models == ModelsOf(rs)
        totalCost == SumCost(rs)
        breakdown == Array([i \in 1..Len(models) |-> BreakdownEntry(rs, models[i], totalCost)])
    IN  SortDesc(breakdown, TotalCostOf)

\* a variant that adds the raw cost of the errored record
ErroredCharge_RawCost(r) == r.cost

\* what the loop adds to typeCosts.errored for one errored record
ErroredCharge(r) == 0

\* a variant that tests for a failed request first
TypeBucket_ErroredFirst(r) ==
    IF isErrored(r) THEN "errored"
    ELSE IF isIncluded(r) THEN "included"
    ELSE IF isOnDemand(r) THEN "on_demand"
    ELSE "none"

\* the bucket a record is counted in: the first test of the if/else-if chain
\* that matches, "none" when none does
TypeBucket(r) ==
    IF isIncluded(r) THEN "included"
    ELSE IF isOnDemand(r) THEN "on_demand"
    ELSE IF isErrored(r) THEN "errored"
    ELSE "none"

calculateBreakdownByType(rs) ==
    LET In(b) == LET Is(r) == TypeBucket(r) = b IN SelectSeq(rs, Is)
        included == In("included")
        on_demand == In("on_demand")
        errored == In("errored")
        totalCost == SumCost(rs)
        Pct(cost) == IF RGt(totalCost, Zero)
                     THEN RMul(RDiv(cost, totalCost), Num(100)) ELSE Zero
    IN  [included |-> [cost |-> SumCost(included),
                       request_count |-> Len(included),
                       percentage |-> Pct(SumCost(included))],
         on_demand |-> [cost |-> SumCost(on_demand),
                        request_count |-> Len(on_demand),
                        percentage |-> Pct(SumCost(on_demand))],
         errored |-> [cost |-> Dollars(SumField(errored, ErroredCharge)),
                      request_count |-> Len(errored),
                      percentage |-> Zero]]

DateKey(d) == Num(d.date)
CostKey(x) == x.cost

\* a variant that leaves the days in the order they were first seen
calculateDailyCosts_AsFirstSeen(rs) ==
    LET days == DaysOf(rs)
    IN  Array([i \in 1..Len(days) |-> DailyUsage(days[i], RecordsOfDay(rs, days[i]))])

calculateDailyCosts(rs) ==
    LET days == DaysOf(rs)
        dailyUsages == Array([i \in 1..Len(days) |-> DailyUsage(days[i], RecordsOfDay(rs, days[i]))])
    IN  SortAsc(dailyUsages, DateKey)

\* a variant in which the sort is applied to the records array itself
recordsAfterFindTopExpensiveRequests_InPlace(rs) ==
    LET Key(r) == Dollars(r.cost) IN SortDesc(rs, Key)

\* the records array after findTopExpensiveRequests: the sort is applied to
\* requestsWithIndex, the array records.map built, never to records itself
recordsAfterFindTopExpensiveRequests(rs) == rs

findTopExpensiveRequests(rs, limit) ==
    LET requestsWithIndex == Array([i \in 1..Len(rs) |-> [record |-> rs[i], index |-> i]])
        Key(x) == Dollars(x.record.cost)
        sorted == SortDesc(requestsWithIndex, Key)
        Out(x) == [date |-> x.record.date,
                   model |-> x.record.model,
                   kind |-> x.record.kind,
                   cost |-> Dollars(x.record.cost),
                   total_tokens |-> x.record.totalTokens,
                   row_number |-> x.index]
    IN  Map(Slice(sorted, limit), Out)

\* the dailyCosts array after findTopExpensiveDays: the sort is applied to
\* dailyUsages, the array dailyCosts.map built
dailyCostsAfterFindTopExpensiveDays(dailyCosts) == dailyCosts

findTopExpensiveDays(dailyCosts, limit) ==
    LET sorted == SortDesc(dailyCosts, CostKey)
        Out(day) == [date |-> day.date, cost |-> day.cost,
                     request_count |-> day.request_count]
    IN  Map(Slice(sorted, limit), Out)

\* null is the model "" with no cost
NoModel == [model |-> "", total_cost |-> Zero, percentage |-> Zero, request_count |-> 0]

findMostExpensiveModel(breakdownByModel) ==
    IF Len(breakdownByModel) = 0 THEN NoModel
    ELSE LET model == breakdownByModel[1]
         IN  [model |-> model.model, total_cost |-> model.total_cost,
              percentage |-> model.percentage, request_count |-> model.request_count]

TopLimit == 5

\* CostAnalyzer.analyze past its entry check
CostAnalysis(rs) ==
    With(calculateBreakdownByModel(rs), LAMBDA breakdownByModel :
    With(calculateDailyCosts(rs), LAMBDA dailyCosts :
        [summary |-> calculateSummary(rs),
         breakdown_by_model |-> breakdownByModel,
         breakdown_by_type |-> calculateBreakdownByType(rs),
         daily_costs |-> dailyCostsAfterFindTopExpensiveDays(dailyCosts),
         top_expensive_requests |-> findTopExpensiveRequests(rs, TopLimit),
         top_expensive_days |-> findTopExpensiveDays(dailyCosts, TopLimit),
         most_expensive_model |-> findMostExpensiveModel(breakdownByModel)]))

----------------------------------------------------------------------------
(* ModelEfficiencyAnalyzer (analyzers/model-efficiency.js) *)

\* the cost basis of the score: output tokens for a thinking model
ScoreCostPerMillion(reg, modelUsage) ==
    IF MU_isThinkingModel(reg, modelUsage)
    THEN MU_getCostPerMillionOutputTokens(modelUsage)
    ELSE MU_getCostPerMillionTokens(modelUsage)

\* a variant without the upper limit
Clamp_NoCeiling(score) == RMax(Zero, score)

\* Math.max(0, Math.min(100, score))
Clamp(score) == RMax(Zero, RMin(Num(100), score))

\* a variant that applies the thinking boost to the clamped score
ScoreOf_BoostAfterClamp(costPerMillion, thinking) ==
    With(RSub(Num(100), RDiv(costPerMillion, Num(10))), LAMBDA base :
        Rat(RRound(RMul(IF thinking THEN RMul(Clamp(base), Rat(12, 10)) ELSE Clamp(base),
                        Num(100))), 100))

\* score, times 1.2 for a thinking model, clamped, then
\* Math.round(score * 100) / 100
ScoreOf(costPerMillion, thinking) ==
    With(RSub(Num(100), RDiv(costPerMillion, Num(10))), LAMBDA base :
        Rat(RRound(RMul(Clamp(IF thinking THEN RMul(base, Rat(12, 10)) ELSE base),
                        Num(100))), 100))

calculateEfficiencyScore(reg, modelUsage) ==
    ScoreOf(ScoreCostPerMillion(reg, modelUsage), MU_isThinkingModel(reg, modelUsage))

ME_generateRecommendation(reg, modelUsage) ==
    getModelRecommendation(reg, modelUsage.model, getCategory(modelUsage))

EfficiencyScoreOf(item) == item.efficiencyScore

\* one entry of the rankings
Ranking(reg, rank, item) ==
    [rank |-> rank,
     model |-> item.modelUsage.model,
     efficiency_score |-> item.efficiencyScore,
     cost_per_million_tokens |-> MU_getCostPerMillionTokens(item.modelUsage),
     cost_per_million_output_tokens |-> MU_getCostPerMillionOutputTokens(item.modelUsage),
     average_cost_per_request |-> MU_getAverageCostPerRequest(item.modelUsage),
     category |-> getCategory(item.modelUsage),
     is_thinking_model |-> MU_isThinkingModel(reg, item.modelUsage),
     recommendation |-> item.recommendation,
     total_cost |-> item.modelUsage.totalCost,
     request_count |-> item.modelUsage.requestCount,
     total_tokens |-> item.modelUsage.totalTokens,
     cache_efficiency |-> MU_getCacheEfficiency(item.modelUsage)]

\* the efficiency data of one model
EfficiencyData(reg, modelUsage) ==
    [modelUsage |-> modelUsage,
     efficiencyScore |-> calculateEfficiencyScore(reg, modelUsage),
     recommendation |-> ME_generateRecommendation(reg, modelUsage)]

\* ModelEfficiencyAnalyzer.analyze past its entry check
ModelAnalysis(reg, rs) ==
    With(ModelsOf(rs), LAMBDA models :
    With(Array([i \in 1..Len(models) |->
             EfficiencyData(reg, ModelUsage(models[i], RecordsOfModel(rs, models[i])))]),
         LAMBDA efficiencyData :
    With(SortDesc(efficiencyData, EfficiencyScoreOf), LAMBDA sorted :
        [rankings |-> Array([i \in 1..Len(sorted) |-> Ranking(reg, i, sorted[i])])])))

----------------------------------------------------------------------------
(* PlanOptimizer (analyzers/plan-optimization.js) *)

PLAN_TIERS ==
    [Free |-> [name |-> "Free", monthlyCost |-> 0, fastRequestsLimit |-> 50],
     Pro |-> [name |-> "Pro", monthlyCost |-> 20, fastRequestsLimit |-> 500],
     Ultra |-> [name |-> "Ultra", monthlyCost |-> 200, fastRequestsLimit |-> 10000]]

\* costSummary.period.days || 1
DaysOr(costSummary, dflt) ==
    IF costSummary.period.days = 0 THEN dflt ELSE costSummary.period.days

calculateMonthlyCost(costSummary) ==
    RMul(RDiv(costSummary.cost.total, Num(DaysOr(costSummary, 1))), Num(30))

\* a variant that infers the plan from the monthly cost alone
detectCurrentPlan_ByCostOnly(rs, costSummary, monthlyCost) ==
    LET totalRequests == Len(rs)
        days == DaysOr(costSummary, 1)
        monthlyRequests == RMul(Rat(totalRequests, days), Num(30))
        includedRequests == Len(SelectSeq(rs, isIncluded))
        includedPercentage == RMul(Rat(includedRequests, totalRequests), Num(100))
        verdict ==
            IF RGt(monthlyCost, Num(220)) THEN <<"Ultra", "high">>
            ELSE IF RGt(monthlyCost, Num(15)) THEN <<"Pro", "medium">>
            ELSE <<"Free", IF RLt(monthlyCost, Num(5)) THEN "high" ELSE "medium">>
    IN  [plan |-> verdict[1],
         confidence |-> verdict[2],
         monthly_cost |-> monthlyCost,
         monthly_requests |-> monthlyRequests,
         included_requests_percentage |-> includedPercentage]

detectCurrentPlan(rs, costSummary, monthlyCost) ==
    LET totalRequests == Len(rs)
        days == DaysOr(costSummary, 1)
        monthlyRequests == RMul(Rat(totalRequests, days), Num(30))
        includedRequests == Len(SelectSeq(rs, isIncluded))
        includedPercentage == RMul(Rat(includedRequests, totalRequests), Num(100))
        verdict ==
            IF RGt(monthlyCost, Num(220)) THEN <<"Ultra", "high">>
            ELSE IF RGt(monthlyCost, Num(15)) /\ RLe(monthlyCost, Num(220))
            THEN IF RGt(includedPercentage, Num(70)) /\ RGt(monthlyRequests, Num(400))
                 THEN <<"Pro", "high">>
                 ELSE IF RGt(monthlyRequests, Num(1000))
                 THEN <<"Ultra", "medium">>
                 ELSE <<"Pro", "medium">>
            ELSE <<"Free", IF RLt(monthlyCost, Num(5)) THEN "high" ELSE "medium">>
    IN  [plan |-> verdict[1],
         confidence |-> verdict[2],
         monthly_cost |-> monthlyCost,
         monthly_requests |-> monthlyRequests,
         included_requests_percentage |-> includedPercentage]

analyzeRequestVolume(rs, costSummary) ==
    LET totalRequests == Len(rs)
        days == DaysOr(costSummary, 1)
        monthlyRequests == RMul(Rat(totalRequests, days), Num(30))
    IN  [total_requests |-> totalRequests,
         monthly_requests |-> monthlyRequests,
         included_requests |-> Len(SelectSeq(rs, isIncluded)),
         on_demand_requests |-> Len(SelectSeq(rs, isOnDemand)),
         errored_requests |-> Len(SelectSeq(rs, isErrored)),
         exceeds_pro_limit |-> RGt(monthlyRequests, Num(PLAN_TIERS.Pro.fastRequestsLimit)),
         exceeds_ultra_limit |->
             RGt(monthlyRequests, Num(PLAN_TIERS.Ultra.fastRequestsLimit)),
         requests_per_day |-> Rat(totalRequests, days)]

\* requestAnalysis.exceedsProLimit as generateRecommendation reads it: the
\* object analyzeRequestVolume builds has no property of that name (it is
\* exceeds_pro_limit there), so the read yields undefined, which is falsy
ReadExceedsProLimit(requestAnalysis) == FALSE

\* a variant that compares with the limit of the Pro tier
ExceedsFreeLimit_ProLimit(requestAnalysis) ==
    RGt(requestAnalysis.monthly_requests, Num(PLAN_TIERS.Pro.fastRequestsLimit))

\* requestAnalysis.monthly_requests > PLAN_TIERS.FREE.fastRequestsLimit
ExceedsFreeLimit(requestAnalysis) ==
    RGt(requestAnalysis.monthly_requests, Num(PLAN_TIERS.Free.fastRequestsLimit))

\* the branch of the decision tree: plan, raw savings, confidence, and the
\* reasoning and action sentences by their identifiers
PlanDecision(currentPlan, monthlyCost, requestAnalysis) ==
    IF RGt(monthlyCost, Num(220))
    THEN [recommendedPlan |-> "Ultra",
          savings |-> RSub(monthlyCost, Num(PLAN_TIERS.Ultra.monthlyCost)),
          reasoning |-> <<"exceeds-ultra-cost", "ultra-would-save">> \o
              (IF ReadExceedsProLimit(requestAnalysis)
               THEN <<"consistently-exceed-pro-limit">> ELSE <<>>),
          actions |-> <<"upgrade-to-ultra">>,
          confidence |-> "high"]
    ELSE IF RGe(monthlyCost, Num(180)) /\ RLe(monthlyCost, Num(220))
    THEN [recommendedPlan |-> "Ultra",
          savings |-> RSub(monthlyCost, Num(PLAN_TIERS.Ultra.monthlyCost)),
          reasoning |-> <<"close-to-ultra-cost", "ultra-predictable">> \o
              (IF ReadExceedsProLimit(requestAnalysis)
               THEN <<"exceeding-pro-limit">> ELSE <<>>),
          actions |-> <<"consider-ultra">>,
          confidence |-> "medium"]
    ELSE IF RGe(monthlyCost, Num(15)) /\ RLt(monthlyCost, Num(180))
    THEN [recommendedPlan |-> "Pro",
          savings |-> Zero,
          reasoning |-> <<"optimal-for-pro">> \o
              (IF ~ReadExceedsProLimit(requestAnalysis)
               THEN <<"fits-within-pro-limits">>
               ELSE <<"exceeding-pro-limit-consider-ultra">>),
          actions |-> <<"stay-on-pro">>,
          confidence |-> "high"]
    ELSE LET over == ExceedsFreeLimit(requestAnalysis)
         IN  [recommendedPlan |-> IF over THEN "Pro" ELSE "Free",
              savings |-> IF over THEN Zero ELSE monthlyCost,
              reasoning |-> <<"spending-is-low", "consider-free">> \o
                  (IF over THEN <<"exceeds-free-limits", "pro-recommended">> ELSE <<>>),
              actions |-> <<"evaluate-free">>,
              confidence |-> IF RLt(monthlyCost, Num(5)) THEN "high" ELSE "medium"]

\* a variant that reports the raw savings
conservativeSavings_Undiscounted(savings) ==
    IF RGt(savings, Zero) THEN savings ELSE Zero

\* savings > 0 ? savings * 0.9 : 0
conservativeSavings(savings) ==
    IF RGt(savings, Zero) THEN RMul(savings, Rat(9, 10)) ELSE Zero

PlanRank(plan) ==
    IF plan = "Free" THEN 1 ELSE IF plan = "Pro" THEN 2
    ELSE IF plan = "Ultra" THEN 3 ELSE 0

\* new PlanRecommendation({...}).toObject(); savings_yearly is
\* data.savings_yearly || (data.savings_monthly || 0) * 12
PlanRecommendation(currentPlan, monthlyCost, requestAnalysis, d, savings_monthly, yearly) ==
    [current_plan |-> currentPlan.plan,
     recommended_plan |-> d.recommendedPlan,
     recommended_cost |-> PLAN_TIERS[d.recommendedPlan].monthlyCost,
     actual_monthly_cost |-> monthlyCost,
     savings_monthly |-> savings_monthly,
     savings_yearly |-> IF yearly = Zero THEN RMul(savings_monthly, Num(12)) ELSE yearly,
     savings_percentage |->
         IF monthlyCost = Zero THEN Zero
         ELSE RMul(RDiv(savings_monthly, monthlyCost), Num(100)),
     confidence |-> d.confidence,
     reasoning |-> d.reasoning,
     actions |-> d.actions,
     is_optimal |-> currentPlan.plan = d.recommendedPlan,
     should_act |-> /\ currentPlan.plan # d.recommendedPlan
                    /\ RGe(savings_monthly, Num(5))
                    /\ d.confidence = "high",
     is_upgrade |-> PlanRank(d.recommendedPlan) > PlanRank(currentPlan.plan),
     is_downgrade |-> PlanRank(d.recommendedPlan) < PlanRank(currentPlan.plan),
     monthly_requests |-> requestAnalysis.monthly_requests,
     exceeds_pro_limit |-> requestAnalysis.exceeds_pro_limit]

generateRecommendation(currentPlan, monthlyCost, requestAnalysis, costSummary) ==
    With(PlanDecision(currentPlan, monthlyCost, requestAnalysis), LAMBDA d :
    With(conservativeSavings(d.savings), LAMBDA conservative :
        PlanRecommendation(currentPlan, monthlyCost, requestAnalysis, d,
                           RMax(Zero, conservative),
                           RMax(Zero, RMul(conservative, Num(12))))))

\* PlanOptimizer.analyze past its entry checks
PlanAnalysis(rs, costSummary) ==
    With(calculateMonthlyCost(costSummary), LAMBDA actualMonthlyCost :
    With(detectCurrentPlan(rs, costSummary, actualMonthlyCost), LAMBDA currentPlan :
    With(analyzeRequestVolume(rs, costSummary), LAMBDA requestAnalysis :
        [current_plan |-> currentPlan,
         actual_monthly_cost |-> actualMonthlyCost,
         request_analysis |-> requestAnalysis,
         recommendation |->
             generateRecommendation(currentPlan, actualMonthlyCost, requestAnalysis,
                                    costSummary)])))

----------------------------------------------------------------------------
(* CacheEfficiencyAnalyzer (analyzers/cache-efficiency.js) *)

CACHE_BENCHMARKS ==
    [POOR |-> [threshold |-> 60, label |-> "Poor"],
     AVERAGE |-> [threshold |-> 75, label |-> "Average"],
     GOOD |-> [threshold |-> 85, label |-> "Good"],
     EXCELLENT |-> [threshold |-> 92, label |-> "Excellent"],
     OUTSTANDING |-> [threshold |-> 100, label |-> "Outstanding"]]

\* a variant whose hit rate is taken over all the tokens plus the input
calculateCacheMetrics_OverAllTokens(rs) ==
    LET totalCacheTokens == SumField(rs, CacheReadOf)
        totalInputTokens == SumField(rs, InputOf)
        totalOutputTokens == SumField(rs, OutputOf)
        totalTokens == SumField(rs, TotalTokensOf)
    IN  [total_cache_tokens |-> totalCacheTokens,
         total_input_tokens |-> totalInputTokens,
         total_output_tokens |-> totalOutputTokens,
         total_tokens |-> totalTokens,
         cache_hit_rate |->
             IF totalTokens + totalInputTokens > 0
             THEN RMul(Rat(totalCacheTokens, totalTokens + totalInputTokens), Num(100))
             ELSE Zero,
         overall_cache_efficiency |->
             IF totalTokens > 0
             THEN RMul(Rat(totalCacheTokens, totalTokens), Num(100))
             ELSE Zero]

calculateCacheMetrics(rs) ==
    LET totalCacheTokens == SumField(rs, CacheReadOf)
        totalInputTokens == SumField(rs, InputOf)
        totalOutputTokens == SumField(rs, OutputOf)
        totalTokens == SumField(rs, TotalTokensOf)
    IN  [total_cache_tokens |-> totalCacheTokens,
         total_input_tokens |-> totalInputTokens,
         total_output_tokens |-> totalOutputTokens,
         total_tokens |-> totalTokens,
         cache_hit_rate |->
             IF totalCacheTokens + totalInputTokens > 0
             THEN RMul(Rat(totalCacheTokens, totalCacheTokens + totalInputTokens), Num(100))
             ELSE Zero,
         overall_cache_efficiency |->
             IF totalTokens > 0
             THEN RMul(Rat(totalCacheTokens, totalTokens), Num(100))
             ELSE Zero]

\* record.cost * inputRatio for a record with input tokens
InputCostShare(r) ==
    IF r.input > 0
    THEN RMul(Dollars(r.cost),
              Rat(r.input, IF r.totalTokens = 0 THEN 1 ELSE r.totalTokens))
    ELSE Zero

calculateCacheSavings(rs, metrics) ==
    LET totalInputCost == RSum(Array([i \in 1..Len(rs) |-> InputCostShare(rs[i])]))
        totalInputTokens == SumField(rs, InputOf)
        avgCostPerInputToken ==
            IF totalInputTokens > 0 THEN RDiv(totalInputCost, Num(totalInputTokens))
            ELSE Zero
        estimatedCostWithoutCache ==
            RMul(Num(metrics.total_cache_tokens), avgCostPerInputToken)
    IN  [estimated_cost_without_cache |-> estimatedCostWithoutCache,
         actual_cost_with_cache |-> Zero,
         savings_monthly |-> estimatedCostWithoutCache,
         savings_yearly |-> RMul(estimatedCostWithoutCache, Num(12)),
         cache_tokens_processed |-> metrics.total_cache_tokens]

\* a JavaScript value that is a number or undefined; every comparison with
\* undefined is false
Defined(x) == [defined |-> TRUE, value |-> x]
Undefined == [defined |-> FALSE, value |-> Zero]
JLt(x, n) == x.defined /\ RLt(x.value, Num(n))
JGe(x, n) == x.defined /\ RGe(x.value, Num(n))

\* cacheHitRate: a number or undefined
benchmarkCacheEfficiency(cacheHitRate) ==
    [level |->
        IF JLt(cacheHitRate, CACHE_BENCHMARKS.POOR.threshold)
        THEN CACHE_BENCHMARKS.POOR.label
        ELSE IF JLt(cacheHitRate, CACHE_BENCHMARKS.AVERAGE.threshold)
        THEN CACHE_BENCHMARKS.AVERAGE.label
        ELSE IF JLt(cacheHitRate, CACHE_BENCHMARKS.GOOD.threshold)
        THEN CACHE_BENCHMARKS.GOOD.label
        ELSE IF JLt(cacheHitRate, CACHE_BENCHMARKS.EXCELLENT.threshold)
        THEN CACHE_BENCHMARKS.EXCELLENT.label
        ELSE CACHE_BENCHMARKS.OUTSTANDING.label,
     cache_hit_rate |-> cacheHitRate,
     threshold_met |-> JGe(cacheHitRate, CACHE_BENCHMARKS.GOOD.threshold)]

\* metrics.cacheHitRate as analyze reads it: calculateCacheMetrics names the
\* property cache_hit_rate, so the read yields undefined
ReadCacheHitRate(metrics) == Undefined

\* feedback.potential_savings = null
NoPotentialSavings ==
    [present |-> FALSE, monthly |-> Zero, yearly |-> Zero, improvement_percentage |-> Zero]

PotentialSavings(cacheHitRate, monthlyCost, potentialImprovement) ==
    LET potentialCacheIncrease ==
            RAdd(cacheHitRate, RMul(RSub(Num(100), cacheHitRate), potentialImprovement))
        potentialSavings ==
            RDiv(RMul(monthlyCost, RSub(potentialCacheIncrease, cacheHitRate)), Num(100))
    IN  [present |-> TRUE,
         monthly |-> RMax(Zero, potentialSavings),
         yearly |-> RMax(Zero, RMul(potentialSavings, Num(12))),
         improvement_percentage |-> RSub(potentialCacheIncrease, cacheHitRate)]

\* costSummary may be absent (costSummary?.period?.days || 30)
Cache_generateFeedback(metrics, benchmark, savings, costSummary) ==
    LET cacheHitRate == metrics.cache_hit_rate
        days == IF costSummary.present THEN DaysOr(costSummary.value, 30) ELSE 30
        monthlyCost ==
            IF costSummary.present /\ costSummary.value.cost.total # Zero
            THEN RMul(RDiv(costSummary.value.cost.total, Num(days)), Num(30))
            ELSE Zero
    IN  IF benchmark.level = CACHE_BENCHMARKS.POOR.label
        THEN [summary |-> "below-average",
              tips |-> <<"longer-sessions", "keep-files-open", "use-file-references",
                         "avoid-switching", "use-workspace-context">>,
              potential_savings |-> PotentialSavings(cacheHitRate, monthlyCost, Rat(25, 100))]
        ELSE IF benchmark.level = CACHE_BENCHMARKS.AVERAGE.label
        THEN [summary |-> "average",
              tips |-> <<"longer-sessions", "keep-files-open", "use-file-references">>,
              potential_savings |-> PotentialSavings(cacheHitRate, monthlyCost, Rat(15, 100))]
        ELSE IF benchmark.level = CACHE_BENCHMARKS.GOOD.label
        THEN [summary |-> "good",
              tips |-> <<"focused-sessions", "keep-files-open">>,
              potential_savings |-> NoPotentialSavings]
        ELSE [summary |-> "great",
              tips |-> <<"effective", "keep-it-up">>,
              potential_savings |-> NoPotentialSavings]

Present(v) == [present |-> TRUE, value |-> v]

\* CacheEfficiencyAnalyzer.analyze past its entry check
CacheAnalysis(rs, costSummary) ==
    With(calculateCacheMetrics(rs), LAMBDA metrics :
    With(calculateCacheSavings(rs, metrics), LAMBDA savings :
    With(benchmarkCacheEfficiency(ReadCacheHitRate(metrics)), LAMBDA benchmark :
        [metrics |-> metrics,
         benchmark |-> benchmark,
         savings |-> savings,
         feedback |-> Cache_generateFeedback(metrics, benchmark, savings, costSummary)])))

----------------------------------------------------------------------------
(* UsagePatternAnalyzer (analyzers/usage-patterns.js) *)

WORK_STYLES ==
    [NIGHT_CODER |-> "night_coder", WEEKEND_WARRIOR |-> "weekend_warrior",
     SPRINT_WORKER |-> "sprint_worker", STEADY_USER |-> "steady_user"]

\* one slot of a distribution: the records that fall in it
Slot(rs, inSlot, totalCost) ==
    [requests |-> Len(inSlot),
     cost |-> SumCost(inSlot),
     percentage |-> IF Len(rs) > 0 THEN RMul(Rat(Len(inSlot), Len(rs)), Num(100)) ELSE Zero,
     cost_percentage |->
         IF RGt(totalCost, Zero) THEN RMul(RDiv(SumCost(inSlot), totalCost), Num(100))
         ELSE Zero]

calculateHourlyDistribution(rs) ==
    LET totalCost == SumCost(rs)
    IN  Array([h \in 1..24 |->
            LET Is(r) == getUTCHours(r) = h - 1
                slot == Slot(rs, SelectSeq(rs, Is), totalCost)
            IN  [hour |-> h - 1, requests |-> slot.requests, cost |-> slot.cost,
                 percentage |-> slot.percentage,
                 cost_percentage |-> slot.cost_percentage]])

calculateDailyDistribution(rs) ==
    LET totalCost == SumCost(rs)
    IN  Array([d \in 1..7 |->
            LET Is(r) == getUTCWeekday(r) = d - 1
                slot == Slot(rs, SelectSeq(rs, Is), totalCost)
            IN  [day |-> d - 1, requests |-> slot.requests, cost |-> slot.cost,
                 percentage |-> slot.percentage,
                 cost_percentage |-> slot.cost_percentage]])

RequestsKey(x) == Num(x.requests)

identifyPeakHours(hourlyDistribution) ==
    LET sorted == SortDesc(hourlyDistribution, RequestsKey)
        Out(data) == [hour |-> data.hour, requests |-> data.requests,
                      cost |-> data.cost, percentage |-> data.percentage]
    IN  Map(Slice(sorted, 3), Out)

\* the per-day groups of detectSprints and getDailyCosts: keyed by the UTC day
\* (new Date(date).toISOString().split('T')[0]), in first-seen order
UTCDaysOf(rs) == FirstSeen(Array([i \in 1..Len(rs) |-> getUTCDay(rs[i])]))
RecordsOfUTCDay(rs, d) == LET Is(r) == getUTCDay(r) = d IN SelectSeq(rs, Is)

Square(x) == RMul(x, x)

\* the mean and the population variance of a non-empty array of numbers
Mean(values) == RDiv(RSum(values), Num(Len(values)))
calculateVariance(values) ==
    IF Len(values) = 0 THEN Zero
    ELSE With(Mean(values), LAMBDA mean :
             RDiv(RSum(Array([i \in 1..Len(values) |-> Square(RSub(values[i], mean))])),
                  Num(Len(values))))

\* x >= mean + k * Math.sqrt(variance): a day exactly on the threshold counts
AboveBySigmas_OrEqual(x, mean, variance, k) ==
    /\ RGe(x, mean)
    /\ RGe(Square(RSub(x, mean)), RMul(Num(k * k), variance))

\* x > mean + k * Math.sqrt(variance), for k >= 0, without taking the root
AboveBySigmas(x, mean, variance, k) ==
    /\ RGt(x, mean)
    /\ RGt(Square(RSub(x, mean)), RMul(Num(k * k), variance))

\* one day of detectSprints
SprintDay(rs, day) ==
    With(RecordsOfUTCDay(rs, day), LAMBDA ofDay :
        [date |-> day, cost |-> SumCost(ofDay), requests |-> Len(ofDay)])

\* the days more than two standard deviations above the average
SprintsOf(days, avgDailyCost, variance) ==
    LET IsSprint(d) == AboveBySigmas(d.cost, avgDailyCost, variance, 2)
        Out(d) == [date |-> d.date,
                   cost |-> d.cost,
                   requests |-> d.requests,
                   deviation |-> RSub(d.cost, avgDailyCost),
                   deviation_percentage |->
                       IF RGt(avgDailyCost, Zero)
                       THEN RMul(RDiv(RSub(d.cost, avgDailyCost), avgDailyCost), Num(100))
                       ELSE Zero]
    IN  Map(Slice(SortDesc(SelectSeq(days, IsSprint), CostKey), TopLimit), Out)

detectSprints(rs, costSummary) ==
    With(UTCDaysOf(rs), LAMBDA dayKeys :
    With(Array([i \in 1..Len(dayKeys) |-> SprintDay(rs, dayKeys[i])]), LAMBDA days :
    With(Array([i \in 1..Len(days) |-> days[i].cost]), LAMBDA costs :
        IF Len(days) = 0 THEN <<>>
        ELSE SprintsOf(days, Mean(costs), calculateVariance(costs)))))

getDailyCosts(rs) ==
    With(UTCDaysOf(rs), LAMBDA dayKeys :
        Array([i \in 1..Len(dayKeys) |-> SumCost(RecordsOfUTCDay(rs, dayKeys[i]))]))

\* coefficientOfVariation > c and < c, for c = num/den >= 0, where the
\* coefficient is Math.sqrt(variance) / mean for mean > 0 and 0 otherwise
CVAbove(variance, mean, num, den) ==
    RGt(mean, Zero) /\ RGt(variance, RMul(Rat(num * num, den * den), Square(mean)))
CVBelow(variance, mean, num, den) ==
    IF RGt(mean, Zero)
    THEN RLt(variance, RMul(Rat(num * num, den * den), Square(mean)))
    ELSE num > 0

SeqContains(s, x) == \E i \in 1..Len(s) : s[i] = x

\* the share of the requests in the slots that satisfy In
SlotShare(distribution, In(_)) ==
    With(SelectSeq(distribution, In), LAMBDA slots :
        RSum(Array([i \in 1..Len(slots) |-> slots[i].percentage])))

\* a variant whose weekend test lets a share of exactly 20% through
MatchedStyles_WeekendAtLeast(eveningPercentage, weekendPercentage, variance, avgDailyCost, days) ==
    (IF RGt(eveningPercentage, Num(40)) THEN <<WORK_STYLES.NIGHT_CODER>> ELSE <<>>)
    \o (IF RGe(weekendPercentage, Num(20)) THEN <<WORK_STYLES.WEEKEND_WARRIOR>> ELSE <<>>)
    \o (IF CVAbove(variance, avgDailyCost, 5, 10) /\ days > 7
        THEN <<WORK_STYLES.SPRINT_WORKER>> ELSE <<>>)
    \o (IF CVBelow(variance, avgDailyCost, 3, 10) /\ days > 7
        THEN <<WORK_STYLES.STEADY_USER>> ELSE <<>>)

\* the styles matched, in the order the tests are made
MatchedStyles(eveningPercentage, weekendPercentage, variance, avgDailyCost, days) ==
    (IF RGt(eveningPercentage, Num(40)) THEN <<WORK_STYLES.NIGHT_CODER>> ELSE <<>>)
    \o (IF RGt(weekendPercentage, Num(20)) THEN <<WORK_STYLES.WEEKEND_WARRIOR>> ELSE <<>>)
    \o (IF CVAbove(variance, avgDailyCost, 5, 10) /\ days > 7
        THEN <<WORK_STYLES.SPRINT_WORKER>> ELSE <<>>)
    \o (IF CVBelow(variance, avgDailyCost, 3, 10) /\ days > 7
        THEN <<WORK_STYLES.STEADY_USER>> ELSE <<>>)

UsageConsistency(variance, avgDailyCost) ==
    IF CVBelow(variance, avgDailyCost, 3, 10) THEN "steady"
    ELSE IF CVBelow(variance, avgDailyCost, 5, 10) THEN "moderate"
    ELSE "bursty"

\* new WorkStyle({...}).toObject()
WorkStyle(matched, styles, eveningPercentage, weekendPercentage, usage_consistency) ==
    [primary_style |-> styles[1],
     styles |-> styles,
     characteristics |-> IF Len(matched) = 0 THEN <<"regular-usage">> ELSE matched,
     evening_percentage |-> eveningPercentage,
     weekend_percentage |-> weekendPercentage,
     usage_consistency |-> usage_consistency,
     is_night_coder |-> SeqContains(styles, WORK_STYLES.NIGHT_CODER),
     is_weekend_warrior |-> SeqContains(styles, WORK_STYLES.WEEKEND_WARRIOR),
     is_sprint_worker |-> SeqContains(styles, WORK_STYLES.SPRINT_WORKER),
     is_steady_user |-> \/ SeqContains(styles, WORK_STYLES.STEADY_USER)
                        \/ usage_consistency = "steady"]

identifyWorkStyle(hourlyDistribution, dailyDistribution, rs, costSummary) ==
    LET Evening(h) == h.hour >= 18 /\ h.hour <= 23
        Weekend(d) == d.day = 0 \/ d.day = 6
    IN  With(SlotShare(hourlyDistribution, Evening), LAMBDA eveningPercentage :
        With(SlotShare(dailyDistribution, Weekend), LAMBDA weekendPercentage :
        With(getDailyCosts(rs), LAMBDA dailyCosts :
        With(calculateVariance(dailyCosts), LAMBDA variance :
        With(Mean(dailyCosts), LAMBDA avgDailyCost :
        With(MatchedStyles(eveningPercentage, weekendPercentage, variance, avgDailyCost,
                           DaysOr(costSummary, 1)), LAMBDA matched :
            WorkStyle(matched,
                      IF Len(matched) = 0 THEN <<WORK_STYLES.STEADY_USER>> ELSE matched,
                      eveningPercentage, weekendPercentage,
                      UsageConsistency(variance, avgDailyCost))))))))

PatternRecommendation(type, title, priority, sprint) ==
    [type |-> type, title |-> title, priority |-> priority, sprint |-> sprint]

\* no sprint attached to a recommendation
NoSprint == [present |-> FALSE, sprint_date |-> NoDate, sprint_cost |-> Zero]

\* a variant that recommends for a steady user whatever the primary style
generatePatternRecommendations_AnySteady(workStyle, peakHours, sprints, dailyDistribution, costSummary) ==
    LET styles == workStyle.styles
    IN  (IF SeqContains(styles, WORK_STYLES.NIGHT_CODER)
         THEN <<PatternRecommendation("work_pattern", "night-coding", "low", NoSprint)>>
         ELSE <<>>)
        \o (IF SeqContains(styles, WORK_STYLES.WEEKEND_WARRIOR)
            THEN <<PatternRecommendation("work_pattern", "weekend-warrior", "low", NoSprint)>>
            ELSE <<>>)
        \o (IF SeqContains(styles, WORK_STYLES.SPRINT_WORKER)
            THEN <<PatternRecommendation("optimization", "sprint-worker", "medium", NoSprint)>>
            ELSE <<>>)
        \o (IF SeqContains(styles, WORK_STYLES.STEADY_USER)
            THEN <<PatternRecommendation("optimization", "steady-usage", "low", NoSprint)>>
            ELSE <<>>)
        \o (IF Len(sprints) > 0
            THEN <<PatternRecommendation("sprint", "sprint-detected", "low",
                       [present |-> TRUE, sprint_date |-> sprints[1].date,
                        sprint_cost |-> sprints[1].cost])>>
            ELSE <<>>)

generatePatternRecommendations(workStyle, peakHours, sprints, dailyDistribution, costSummary) ==
    LET styles == workStyle.styles
        primaryStyle == workStyle.primary_style
    IN  (IF SeqContains(styles, WORK_STYLES.NIGHT_CODER)
         THEN <<PatternRecommendation("work_pattern", "night-coding", "low", NoSprint)>>
         ELSE <<>>)
        \o (IF SeqContains(styles, WORK_STYLES.WEEKEND_WARRIOR)
            THEN <<PatternRecommendation("work_pattern", "weekend-warrior", "low", NoSprint)>>
            ELSE <<>>)
        \o (IF SeqContains(styles, WORK_STYLES.SPRINT_WORKER)
            THEN <<PatternRecommendation("optimization", "sprint-worker", "medium", NoSprint)>>
            ELSE <<>>)
        \o (IF SeqContains(styles, WORK_STYLES.STEADY_USER)
               /\ primaryStyle = WORK_STYLES.STEADY_USER
            THEN <<PatternRecommendation("optimization", "steady-usage", "low", NoSprint)>>
            ELSE <<>>)
        \o (IF Len(sprints) > 0
            THEN <<PatternRecommendation("sprint", "sprint-detected", "low",
                       [present |-> TRUE, sprint_date |-> sprints[1].date,
                        sprint_cost |-> sprints[1].cost])>>
            ELSE <<>>)

\* UsagePatternAnalyzer.analyze past its entry check
PatternAnalysis(rs, costSummary) ==
    With(calculateHourlyDistribution(rs), LAMBDA hourlyDistribution :
    With(calculateDailyDistribution(rs), LAMBDA dailyDistribution :
    With(identifyPeakHours(hourlyDistribution), LAMBDA peakHours :
    With(detectSprints(rs, costSummary), LAMBDA sprints :
    With(identifyWorkStyle(hourlyDistribution, dailyDistribution, rs, costSummary),
         LAMBDA workStyle :
        [hourly_distribution |-> hourlyDistribution,
         daily_distribution |-> dailyDistribution,
         peak_hours |-> peakHours,
         sprints |-> sprints,
         work_style |-> workStyle,
         recommendations |->
             generatePatternRecommendations(workStyle, peakHours, sprints,
                                            dailyDistribution, costSummary)])))))

----------------------------------------------------------------------------
(* SavingsOpportunitiesAnalyzer (analyzers/savings-opportunities.js) *)

OPPORTUNITY_TYPES ==
    [PLAN_OPTIMIZATION |-> "plan_optimization", MODEL_MIGRATION |-> "model_migration",
     ERROR_REDUCTION |-> "error_reduction", CACHE_OPTIMIZATION |-> "cache_optimization"]

\* an opportunity; the fields a kind does not have are empty or zero
Opportunity(type, monthly, yearly, difficulty, impact, action) ==
    [type |-> type, savings_monthly |-> monthly, savings_yearly |-> yearly,
     difficulty |-> difficulty, impact |-> impact, action |-> action,
     from_model |-> "", to_model |-> "", migratable_requests |-> 0,
     current_rate |-> Zero]

\* the opportunity, or the empty list for null
identifyPlanOptimizationOpportunity(planAnalysis, costSummary) ==
    LET recommendation == planAnalysis.recommendation
    IN  IF RLe(recommendation.savings_monthly, Zero) THEN <<>>
        ELSE IF planAnalysis.current_plan.plan = recommendation.recommended_plan THEN <<>>
        ELSE <<Opportunity(OPPORTUNITY_TYPES.PLAN_OPTIMIZATION,
                   recommendation.savings_monthly,
                   recommendation.savings_yearly,
                   "easy",
                   IF RGt(recommendation.savings_monthly, Num(50)) THEN "high" ELSE "medium",
                   IF Len(recommendation.actions) > 0 THEN recommendation.actions[1]
                   ELSE "switch-plan")>>

\* Math.floor(request_count * 0.30)
MigratableRequests(requestCount) == RFloor(RMul(Num(requestCount), Rat(30, 100)))

\* a variant that skips only a candidate that saves nothing at all
SavingsInsignificant_OnlyZero(monthlySavingsScaled) == monthlySavingsScaled = Zero

\* monthlySavingsScaled < 5
SavingsInsignificant(monthlySavingsScaled) == RLt(monthlySavingsScaled, Num(5))

\* the candidate for one expensive model, or the empty list when skipped
MigrationCandidate(expensiveModel, bestAlternative, costSummary) ==
    LET migratableRequests == MigratableRequests(expensiveModel.request_count)
        expensiveCostForMigratable ==
            RMul(expensiveModel.average_cost_per_request, Num(migratableRequests))
        alternativeCostForMigratable ==
            RMul(bestAlternative.average_cost_per_request, Num(migratableRequests))
        monthlySavings == RSub(expensiveCostForMigratable, alternativeCostForMigratable)
        days == DaysOr(costSummary, 30)
        monthlySavingsScaled == RMul(RDiv(monthlySavings, Num(days)), Num(30))
    IN  IF migratableRequests = 0 THEN <<>>
        ELSE IF SavingsInsignificant(monthlySavingsScaled) THEN <<>>
        ELSE <<[Opportunity(OPPORTUNITY_TYPES.MODEL_MIGRATION,
                    monthlySavingsScaled,
                    RMul(monthlySavingsScaled, Num(12)),
                    "medium",
                    IF RGt(monthlySavingsScaled, Num(30)) THEN "high"
                    ELSE IF RGt(monthlySavingsScaled, Num(10)) THEN "medium" ELSE "low",
                    bestAlternative.recommendation)
                EXCEPT !.from_model = expensiveModel.model,
                       !.to_model = bestAlternative.model,
                       !.migratable_requests = migratableRequests]>>

RECURSIVE Join(_)
\* tips.join('; ')
Join(tips) ==
    IF tips = <<>> THEN ""
    ELSE IF Len(tips) = 1 THEN tips[1]
    ELSE tips[1] \o "; " \o Join(Tail(tips))

RECURSIVE Flatten(_)
Flatten(ss) == IF ss = <<>> THEN <<>> ELSE Head(ss) \o Flatten(Tail(ss))

\* a variant that migrates to the last of the cost-efficient models
identifyModelMigrationOpportunities_LastAlternative(modelAnalysis, costSummary) ==
    LET rankings == modelAnalysis.rankings
        Expensive(m) == m.category = "premium" \/ RGt(m.cost_per_million_tokens, Num(500))
        Cheap(m) == m.category = "cost_efficient" /\ RLt(m.cost_per_million_tokens, Num(100))
        expensiveModels == SelectSeq(rankings, Expensive)
        costEfficientModels == SelectSeq(rankings, Cheap)
    IN  IF Len(costEfficientModels) = 0 THEN <<>>
        ELSE Flatten(Array([i \in 1..Len(expensiveModels) |->
                 MigrationCandidate(expensiveModels[i],
                                    costEfficientModels[Len(costEfficientModels)],
                                    costSummary)]))

identifyModelMigrationOpportunities(modelAnalysis, costSummary) ==
    LET rankings == modelAnalysis.rankings
        Expensive(m) == m.category = "premium" \/ RGt(m.cost_per_million_tokens, Num(500))
        Cheap(m) == m.category = "cost_efficient" /\ RLt(m.cost_per_million_tokens, Num(100))
        expensiveModels == SelectSeq(rankings, Expensive)
        costEfficientModels == SelectSeq(rankings, Cheap)
    IN  IF Len(costEfficientModels) = 0 THEN <<>>
        ELSE Flatten(Array([i \in 1..Len(expensiveModels) |->
                 MigrationCandidate(expensiveModels[i], costEfficientModels[1], costSummary)]))

\* a variant that lets a rate of exactly 3 through
ErrorRateTooLow_Below(errorRate) == RLt(errorRate, Num(3))

\* errorRate <= 3
ErrorRateTooLow(errorRate) == RLe(errorRate, Num(3))

identifyErrorReductionOpportunity(rs, costAnalysis) ==
    LET totalRequests == Len(rs)
        errored == SelectSeq(rs, isErrored)
        erroredRequests == Len(errored)
        errorRate == RMul(Rat(erroredRequests, totalRequests), Num(100))
        erroredCost == SumCost(errored)
        days == DaysOr(costAnalysis.summary, 30)
        monthlyErroredCost == RMul(RDiv(erroredCost, Num(days)), Num(30))
        targetErrorRate == 2
        targetErrorCost == RMul(monthlyErroredCost, RDiv(Num(targetErrorRate), errorRate))
        potentialSavings == RSub(monthlyErroredCost, targetErrorCost)
    IN  IF ErrorRateTooLow(errorRate) THEN <<>>
        ELSE <<[Opportunity(OPPORTUNITY_TYPES.ERROR_REDUCTION,
                    RMax(Zero, potentialSavings),
                    RMax(Zero, RMul(potentialSavings, Num(12))),
                    "medium",
                    IF RGt(errorRate, Num(10)) THEN "medium" ELSE "low",
                    "review-failed-requests")
                EXCEPT !.current_rate = errorRate]>>

identifyCacheOptimizationOpportunity(cacheAnalysis, costSummary) ==
    LET cacheHitRate == cacheAnalysis.metrics.cache_hit_rate
        feedback == cacheAnalysis.feedback
        potentialSavings ==
            IF feedback.potential_savings.present THEN feedback.potential_savings.monthly
            ELSE Zero
        monthlyCost ==
            IF costSummary.cost.total # Zero
            THEN RMul(RDiv(costSummary.cost.total, Num(DaysOr(costSummary, 30))), Num(30))
            ELSE Zero
        improvementPotential == RSub(Num(75), cacheHitRate)
        estimatedSavings ==
            IF potentialSavings = Zero
            THEN RMul(RMul(monthlyCost, RDiv(improvementPotential, Num(100))), Rat(5, 10))
            ELSE potentialSavings
    IN  IF RGe(cacheHitRate, Num(75)) THEN <<>>
        ELSE <<[Opportunity(OPPORTUNITY_TYPES.CACHE_OPTIMIZATION,
                    RMax(Zero, estimatedSavings),
                    RMax(Zero, RMul(estimatedSavings, Num(12))),
                    "medium",
                    IF RLt(cacheHitRate, Num(60)) THEN "medium" ELSE "low",
                    Join(feedback.tips))
                EXCEPT !.current_rate = cacheHitRate]>>

SavingsMonthlyOf(opp) == opp.savings_monthly

\* the records array after CostAnalyzer.analyze, and after the analyzers that
\* run it: of the functions they call only findTopExpensiveRequests sorts, the
\* others read the array (reduce, filter, map, for-of)
recordsAfterCostAnalysis(rs) == recordsAfterFindTopExpensiveRequests(rs)
recordsAfterSavingsAnalysis(rs) == recordsAfterCostAnalysis(rs)

\* a variant that derives its plan analysis for a period of thirty days
\* instead of the period of the cost summary
SavingsCandidates_ThirtyDays(reg, rs) ==
    With(CostAnalysis(rs), LAMBDA costAnalysis :
    With([costAnalysis.summary EXCEPT !.period.days = 30], LAMBDA ownSummary :
        identifyPlanOptimizationOpportunity(PlanAnalysis(rs, ownSummary), ownSummary)
        \o identifyModelMigrationOpportunities(ModelAnalysis(reg, rs), costAnalysis.summary)
        \o identifyErrorReductionOpportunity(rs, costAnalysis)
        \o identifyCacheOptimizationOpportunity(
               CacheAnalysis(rs, Present(costAnalysis.summary)), costAnalysis.summary)))

\* every candidate found, in the order the analyzer pushes them
SavingsCandidates(reg, rs) ==
    With(CostAnalysis(rs), LAMBDA costAnalysis :
        identifyPlanOptimizationOpportunity(PlanAnalysis(rs, costAnalysis.summary),
                                            costAnalysis.summary)
        \o identifyModelMigrationOpportunities(ModelAnalysis(reg, rs), costAnalysis.summary)
        \o identifyErrorReductionOpportunity(rs, costAnalysis)
        \o identifyCacheOptimizationOpportunity(
               CacheAnalysis(rs, Present(costAnalysis.summary)), costAnalysis.summary))

\* a variant that leaves the candidates in the order they were found
RankOpportunities_AsFound(opportunities) == opportunities

\* opportunities.sort((a, b) => b.savings_monthly - a.savings_monthly)
RankOpportunities(opportunities) == SortDesc(opportunities, SavingsMonthlyOf)

\* opportunities.slice(0, 5)
TakeTop(opportunities) == Slice(opportunities, TopLimit)

\* topOpportunities.reduce((sum, opp) => sum + opp.savings_monthly, 0)
TotalPotentialSavings(topOpportunities) ==
    RSum(Array([i \in 1..Len(topOpportunities) |-> topOpportunities[i].savings_monthly]))

\* a variant whose total is taken over every candidate found
SavingsAnalysis_TotalOfAll(reg, rs) ==
    With(RankOpportunities(SavingsCandidates(reg, rs)), LAMBDA opportunities :
    With(TakeTop(opportunities), LAMBDA topOpportunities :
    With(TotalPotentialSavings(opportunities), LAMBDA totalPotentialSavings :
        [opportunities |-> topOpportunities,
         total_potential_savings_monthly |-> totalPotentialSavings,
         total_potential_savings_yearly |-> RMul(totalPotentialSavings, Num(12)),
         total_opportunities_found |-> Len(opportunities)])))

\* SavingsOpportunitiesAnalyzer.analyze past its entry check
SavingsAnalysis(reg, rs) ==
    With(RankOpportunities(SavingsCandidates(reg, rs)), LAMBDA opportunities :
    With(TakeTop(opportunities), LAMBDA topOpportunities :
    With(TotalPotentialSavings(topOpportunities), LAMBDA totalPotentialSavings :
        [opportunities |-> topOpportunities,
         total_potential_savings_monthly |-> totalPotentialSavings,
         total_potential_savings_yearly |-> RMul(totalPotentialSavings, Num(12)),
         total_opportunities_found |-> Len(opportunities)])))

----------------------------------------------------------------------------
(* The analyze entry points: each checks its input first and throws *)

EmptyRecordsError == "Records array cannot be empty"
CostSummaryError == "Cost summary is required"

Throw(message) == [threw |-> TRUE, value |-> message]
Return(value) == [threw |-> FALSE, value |-> value]

\* !records || records.length === 0
IsEmptyInput(input) == ~input.present \/ Len(input.items) = 0

\* a variant of the entry check that tests only for an absent array
CostAnalyzer_rejects_AbsentOnly(input) == ~input.present

CostAnalyzer_rejects(input) == IsEmptyInput(input)
ModelEfficiencyAnalyzer_rejects(input) == IsEmptyInput(input)
PlanOptimizer_rejects(input) == IsEmptyInput(input)
CacheEfficiencyAnalyzer_rejects(input) == IsEmptyInput(input)
UsagePatternAnalyzer_rejects(input) == IsEmptyInput(input)
SavingsOpportunitiesAnalyzer_rejects(input) == IsEmptyInput(input)
AnalysisEngine_rejects(input) == IsEmptyInput(input)

CostAnalyzer_analyze(input) ==
    IF CostAnalyzer_rejects(input) THEN Throw(EmptyRecordsError)
    ELSE Return(CostAnalysis(input.items))

ModelEfficiencyAnalyzer_analyze(reg, input) ==
    IF ModelEfficiencyAnalyzer_rejects(input) THEN Throw(EmptyRecordsError)
    ELSE Return(ModelAnalysis(reg, input.items))

\* costSummary: [present, value]
PlanOptimizer_analyze(input, costSummary) ==
    IF PlanOptimizer_rejects(input) THEN Throw(EmptyRecordsError)
    ELSE IF ~costSummary.present THEN Throw(CostSummaryError)
    ELSE Return(PlanAnalysis(input.items, costSummary.value))

CacheEfficiencyAnalyzer_analyze(input, costSummary) ==
    IF CacheEfficiencyAnalyzer_rejects(input) THEN Throw(EmptyRecordsError)
    ELSE Return(CacheAnalysis(input.items, costSummary))

UsagePatternAnalyzer_analyze(input, costSummary) ==
    IF UsagePatternAnalyzer_rejects(input) THEN Throw(EmptyRecordsError)
    ELSE Return(PatternAnalysis(input.items, costSummary.value))

\* the sub-analyzers are run in turn; a throw of one of them is not caught
SavingsOpportunitiesAnalyzer_analyze(reg, input) ==
    IF SavingsOpportunitiesAnalyzer_rejects(input) THEN Throw(EmptyRecordsError)
    ELSE IF CostAnalyzer_rejects(input) \/ PlanOptimizer_rejects(input)
            \/ ModelEfficiencyAnalyzer_rejects(input)
            \/ CacheEfficiencyAnalyzer_rejects(input)
    THEN Throw(EmptyRecordsError)
    ELSE Return(SavingsAnalysis(reg, input.items))

\* the input array as an analyzer leaves it
InputAfter(input, After(_)) ==
    IF IsEmptyInput(input) THEN input ELSE [input EXCEPT !.items = After(input.items)]

\* a variant in which a lookup marks the entries of the table
registryAfterAnalysis_Marked(reg) ==
    Array([i \in 1..Len(reg) |-> [reg[i] EXCEPT !.isThinkingModel = TRUE]])

\* the registry after an analysis: getModelInfo hands out the entries and its
\* callers read isThinkingModel and useCase; nothing assigns to the table
registryAfterAnalysis(reg) == reg

----------------------------------------------------------------------------
(* AnalysisEngine (domain/analyzer.js) *)

AssembleResult(generatedAt, rs, costAnalysis, modelAnalysis, planAnalysis, cacheAnalysis, savingsAnalysis, patternAnalysis) ==
    [metadata |-> [generated_at |-> generatedAt,
                   total_records |-> Len(rs),
                   analysis_version |-> "1.0"],
     summary |->
        [period |-> costAnalysis.summary.period,
         cost |-> [total |-> costAnalysis.summary.cost.total,
                   daily_average |-> costAnalysis.summary.cost.daily_average,
                   by_type |-> [included |-> costAnalysis.breakdown_by_type.included.cost,
                                on_demand |-> costAnalysis.breakdown_by_type.on_demand.cost,
                                errored |-> costAnalysis.breakdown_by_type.errored.cost]],
         usage |-> [total_requests |-> costAnalysis.summary.usage.total_requests,
                    requests_per_day |-> costAnalysis.summary.usage.requests_per_day,
                    total_tokens |-> costAnalysis.summary.usage.total_tokens,
                    cache_efficiency |-> cacheAnalysis.metrics.overall_cache_efficiency]],
     cost_analysis |->
        [breakdown_by_model |-> costAnalysis.breakdown_by_model,
         breakdown_by_type |-> costAnalysis.breakdown_by_type,
         daily_costs |-> costAnalysis.daily_costs,
         top_expensive_requests |-> costAnalysis.top_expensive_requests,
         top_expensive_days |-> costAnalysis.top_expensive_days,
         most_expensive_model |-> costAnalysis.most_expensive_model],
     model_efficiency |-> [rankings |-> modelAnalysis.rankings],
     plan_recommendation |->
        [current_plan |-> planAnalysis.current_plan.plan,
         current_monthly_cost |-> planAnalysis.actual_monthly_cost,
         recommended_plan |-> planAnalysis.recommendation.recommended_plan,
         recommended_cost |-> planAnalysis.recommendation.recommended_cost,
         savings_monthly |-> planAnalysis.recommendation.savings_monthly,
         savings_yearly |-> planAnalysis.recommendation.savings_yearly,
         confidence |-> planAnalysis.recommendation.confidence,
         reasoning |-> planAnalysis.recommendation.reasoning,
         actions |-> planAnalysis.recommendation.actions],
     cache_efficiency |->
        [metrics |-> cacheAnalysis.metrics,
         benchmark |-> cacheAnalysis.benchmark,
         savings |-> cacheAnalysis.savings,
         feedback |-> cacheAnalysis.feedback],
     opportunities |->
        [list |-> savingsAnalysis.opportunities,
         total_potential_savings_monthly |->
             savingsAnalysis.total_potential_savings_monthly,
         total_potential_savings_yearly |->
             savingsAnalysis.total_potential_savings_yearly],
     patterns |->
        [hourly_distribution |-> patternAnalysis.hourly_distribution,
         daily_distribution |-> patternAnalysis.daily_distribution,
         peak_hours |-> patternAnalysis.peak_hours,
         sprints |-> patternAnalysis.sprints,
         work_style |-> patternAnalysis.work_style,
         recommendations |-> patternAnalysis.recommendations]]

\* the first throw, if any, is the outcome; otherwise the assembled report
EngineOutcome(generatedAt, rs, cost, model, plan, cache, savings, pattern) ==
    IF cost.threw THEN cost
    ELSE IF model.threw THEN model
    ELSE IF plan.threw THEN plan
    ELSE IF cache.threw THEN cache
    ELSE IF savings.threw THEN savings
    ELSE IF pattern.threw THEN pattern
    ELSE Return(AssembleResult(generatedAt, rs, cost.value, model.value,
                    plan.value, cache.value, savings.value, pattern.value))

\* AnalysisEngine.analyze: the analyzers in the order the engine runs them,
\* each on the records array as the one before left it
AnalysisEngine_analyze(reg, input, generatedAt) ==
    IF AnalysisEngine_rejects(input) THEN Throw(EmptyRecordsError)
    ELSE With(CostAnalyzer_analyze(input), LAMBDA cost :
         With(InputAfter(input, recordsAfterCostAnalysis), LAMBDA in1 :
         With(IF cost.threw THEN [present |-> FALSE, value |-> Zero]
              ELSE Present(cost.value.summary), LAMBDA summary :
         With(InputAfter(in1, recordsAfterSavingsAnalysis), LAMBDA in2 :
             EngineOutcome(generatedAt, in2.items, cost,
                 ModelEfficiencyAnalyzer_analyze(reg, in1),
                 PlanOptimizer_analyze(in1, summary),
                 CacheEfficiencyAnalyzer_analyze(in1, summary),
                 SavingsOpportunitiesAnalyzer_analyze(reg, in1),
                 UsagePatternAnalyzer_analyze(in2, summary))))))

\* the records array after AnalysisEngine.analyze
recordsAfterEngine(rs) == recordsAfterSavingsAnalysis(recordsAfterCostAnalysis(rs))

----------------------------------------------------------------------------
(* The inputs: event collections a caller can hand to the analyzers *)

RECURSIVE SeqsUpTo(_, _)
\* the sequences over S of length at most n
SeqsUpTo(S, n) ==
    IF n = 0 THEN {<<>>}
    ELSE LET shorter == SeqsUpTo(S, n - 1)
         IN  shorter \cup {Append(s, x) : s \in shorter, x \in S}

\* absent (null or undefined) or an array of events
Absent == [present |-> FALSE, items |-> <<>>]
Inputs == {Absent} \cup {[present |-> TRUE, items |-> s] : s \in SeqsUpTo(EventDomain, MaxLen)}

\* the large collections: BulkCopies requests of each of the first k expensive
\* models, one cheap request, and at most one request that failed
Copies(e, n) == Array([i \in 1..n |-> e])
BulkItems(k, extras) ==
    Flatten(Array([i \in 1..k |-> Copies(PremiumEvents[i], BulkCopies)]))
        \o <<CheapEvent>> \o extras
BulkInputs ==
    {[present |-> TRUE, items |-> BulkItems(k, extras)] :
        k \in 1..Len(PremiumEvents), extras \in SeqsUpTo({ErroredEvent, AbortedEvent}, 1)}

----------------------------------------------------------------------------
(* The state machine: a caller invoking the analyzers on its collection *)

NoResult == [op |-> "none", threw |-> FALSE, value |-> ""]
Outcome(op, outcome) == [op |-> op, threw |-> outcome.threw, value |-> outcome.value]

\* the cost summary a caller passes along: the one CostAnalyzer computes
SummaryFor(input) ==
    IF input.present THEN Present(calculateSummary(input.items))
    ELSE [present |-> FALSE, value |-> Zero]

Init ==
    /\ records \in Inputs
    /\ registry = MODEL_REGISTRY
    /\ result = NoResult
    /\ now = 0
    /\ firstRun = NoResult

\* one invocation: op returned or threw outcome and left the array as after
Invoke(op, outcome, after) ==
    /\ now < MaxCalls
    /\ result' = Outcome(op, outcome)
    /\ records' = after
    /\ registry' = registryAfterAnalysis(registry)
    /\ now' = now + 1

AnalyzeCost ==
    /\ Invoke("cost", CostAnalyzer_analyze(records),
              InputAfter(records, recordsAfterCostAnalysis))
    /\ UNCHANGED firstRun

AnalyzeModelEfficiency ==
    /\ Invoke("model", ModelEfficiencyAnalyzer_analyze(registry, records), records)
    /\ UNCHANGED firstRun

AnalyzePlan ==
    /\ Invoke("plan", PlanOptimizer_analyze(records, SummaryFor(records)), records)
    /\ UNCHANGED firstRun

AnalyzeCache ==
    /\ Invoke("cache", CacheEfficiencyAnalyzer_analyze(records, SummaryFor(records)),
              records)
    /\ UNCHANGED firstRun

AnalyzeUsagePatterns ==
    /\ Invoke("patterns", UsagePatternAnalyzer_analyze(records, SummaryFor(records)),
              records)
    /\ UNCHANGED firstRun

AnalyzeSavings ==
    /\ Invoke("savings", SavingsOpportunitiesAnalyzer_analyze(registry, records),
              InputAfter(records, recordsAfterSavingsAnalysis))
    /\ UNCHANGED firstRun

\* firstRun keeps the outcome of the first engine run that returned
AnalyzeEngine ==
    /\ Invoke("engine", AnalysisEngine_analyze(registry, records, now),
              InputAfter(records, recordsAfterEngine))
    /\ firstRun' = IF firstRun.op = "none" /\ ~result'.threw THEN result' ELSE firstRun

Next ==
    \/ AnalyzeCost
    \/ AnalyzeModelEfficiency
    \/ AnalyzePlan
    \/ AnalyzeCache
    \/ AnalyzeUsagePatterns
    \/ AnalyzeSavings
    \/ AnalyzeEngine

Spec == Init /\ [][Next]_vars

\* the savings analysis, alone and inside the engine, on the large collections
InitBulk ==
    /\ records \in BulkInputs
    /\ registry = MODEL_REGISTRY
    /\ result = NoResult
    /\ now = 0
    /\ firstRun = NoResult

NextBulk ==
    \/ AnalyzeSavings
    \/ AnalyzeEngine

SpecBulk == InitBulk /\ [][NextBulk]_vars

\* the cache analysis, alone and inside the engine, on collections of requests
\* with different shares of cached input
CacheEvent(cacheRead, input) ==
    Event(0, 10, "Included", "grok-code-fast-1", 10, cacheRead + input, cacheRead, input, 0)

CacheEvents == {
    CacheEvent(500, 500),
    CacheEvent(700, 300),
    CacheEvent(800, 200),
    CacheEvent(850, 150),
    CacheEvent(950, 50) }

CacheInputs == {[present |-> TRUE, items |-> s] : s \in SeqsUpTo(CacheEvents, MaxLen)}

InitCache ==
    /\ records \in CacheInputs
    /\ registry = MODEL_REGISTRY
    /\ result = NoResult
    /\ now = 0
    /\ firstRun = NoResult

NextCache ==
    \/ AnalyzeCache
    \/ AnalyzeEngine

SpecCache == InitCache /\ [][NextCache]_vars

\* the cost analysis, alone and inside the engine, on collections of requests
\* of 10, 20 and 15 dollars spread over three days
SummaryEvent(day, cost) ==
    Event(day, 10, "Included", "grok-code-fast-1", cost, 1000, 0, 1000, 0)

SummaryEvents == {
    SummaryEvent(0, 1000),
    SummaryEvent(0, 2000),
    SummaryEvent(1, 1500),
    SummaryEvent(2, 0) }

SummaryInputs ==
    {[present |-> TRUE, items |-> s] : s \in SeqsUpTo(SummaryEvents, MaxSummaryLen)}

InitSummary ==
    /\ records \in SummaryInputs
    /\ registry = MODEL_REGISTRY
    /\ result = NoResult
    /\ now = 0
    /\ firstRun = NoResult

NextSummary ==
    \/ AnalyzeCost
    \/ AnalyzeEngine

SpecSummary == InitSummary /\ [][NextSummary]_vars

\* the plan analysis on collections of cheap and expensive requests of one
\* day, with or without a request of the next day
PlanItems(cheap, premium, extras) ==
    Copies(CheapEvent, cheap) \o Copies(PremiumEvents[1], premium) \o extras

PlanInputs ==
    {[present |-> TRUE, items |-> PlanItems(cheap, premium, extras)] :
        cheap \in 0..MaxCheap, premium \in 0..MaxPremium,
        extras \in SeqsUpTo({ErroredEvent}, 1)} \ {[present |-> TRUE, items |-> <<>>]}

InitPlan ==
    /\ records \in PlanInputs
    /\ registry = MODEL_REGISTRY
    /\ result = NoResult
    /\ now = 0
    /\ firstRun = NoResult

NextPlan ==
    \/ AnalyzeCost
    \/ AnalyzePlan

SpecPlan == InitPlan /\ [][NextPlan]_vars

\* the savings analysis on collections of MaxRequests requests, or half as
\* many, some of which failed
ErrorItems(total, errored) ==
    Copies(CheapEvent, total - errored) \o Copies(ErroredEvent, errored)

ErrorInputs ==
    {[present |-> TRUE, items |-> ErrorItems(total, errored)] :
        total \in {MaxRequests \div 2, MaxRequests}, errored \in 0..MaxErrored}

InitErrors ==
    /\ records \in ErrorInputs
    /\ registry = MODEL_REGISTRY
    /\ result = NoResult
    /\ now = 0
    /\ firstRun = NoResult

NextErrors ==
    \/ AnalyzeCost
    \/ AnalyzeSavings

SpecErrors == InitErrors /\ [][NextErrors]_vars

\* the savings analysis on collections where the expensive model's requests
\* cost more, or less, than the requests of the cost-efficient alternative
\* a short request: 5 cents for 50 tokens is 1000 dollars per million tokens
LowCostPremiumEvent == Event(0, 20, "On-Demand", "claude-4-opus", 5, 50, 0, 25, 25)

OpportunityItems(premium, blocks, cheap, extras) ==
    Copies(premium, blocks * BulkCopies) \o Copies(CheapEvent, cheap) \o extras

OpportunityInputs ==
    {[present |-> TRUE, items |-> OpportunityItems(premium, blocks, cheap, extras)] :
        premium \in {PremiumEvents[1], LowCostPremiumEvent},
        blocks \in 0..MaxBlocks, cheap \in 1..2,
        extras \in SeqsUpTo({ErroredEvent}, 1)}

InitOpportunities ==
    /\ records \in OpportunityInputs
    /\ registry = MODEL_REGISTRY
    /\ result = NoResult
    /\ now = 0
    /\ firstRun = NoResult

NextOpportunities ==
    \/ AnalyzeSavings
    \/ AnalyzeModelEfficiency

SpecOpportunities == InitOpportunities /\ [][NextOpportunities]_vars

\* the pattern analysis on collections with one request on each of several
\* consecutive days from a Friday on: the first `evening` of them at 20h UTC,
\* the others at 10h; the first day costs `first` cents, the others 100;
\* `extra` requests that cost nothing are added on the Monday morning
StyleEvent(day, hour, cost) ==
    Event(day, hour, "Included", "grok-code-fast-1", cost, 1000, 0, 500, 500)

StyleItems(days, evening, first, extra) ==
    Array([d \in 1..days |->
        StyleEvent(d - 1, IF d <= evening THEN 20 ELSE 10, IF d = 1 THEN first ELSE 100)])
    \o Copies(StyleEvent(3, 10, 0), extra)

StyleInputs ==
    {[present |-> TRUE, items |-> StyleItems(days, evening, first, extra)] :
        days \in {MaxDays - 1, MaxDays}, evening \in {0, 4, MaxDays - 1},
        first \in {100, 250, 1000}, extra \in 0..MaxExtra}

InitStyles ==
    /\ records \in StyleInputs
    /\ registry = MODEL_REGISTRY
    /\ result = NoResult
    /\ now = 0
    /\ firstRun = NoResult

NextStyles ==
    \/ AnalyzeUsagePatterns
    \/ AnalyzeCost

SpecStyles == InitStyles /\ [][NextStyles]_vars

\* the model efficiency analysis on one or two requests of a plain and of a
\* thinking model; half of the tokens of a request are output tokens
ScoreEvent(model, cost, totalTokens) ==
    Event(0, 10, "Included", model, cost, totalTokens, 0,
          totalTokens \div 2, totalTokens \div 2)

ScoreEvents ==
    {ScoreEvent(model, cost, totalTokens) :
        model \in {"grok-code-fast-1", "claude-4.5-sonnet-thinking"},
        cost \in {7, 10, 350},
        totalTokens \in {Million, 30000, 3000}}

ScoreInputs ==
    {[present |-> TRUE, items |-> <<a>>] : a \in ScoreEvents}
    \cup {[present |-> TRUE, items |-> <<a, b>>] : a, b \in ScoreEvents}

InitScores ==
    /\ records \in ScoreInputs
    /\ registry = MODEL_REGISTRY
    /\ result = NoResult
    /\ now = 0
    /\ firstRun = NoResult

NextScores ==
    \/ AnalyzeModelEfficiency
    \/ AnalyzeCost

SpecScores == InitScores /\ [][NextScores]_vars

\* the savings analysis on collections with several cost-efficient models to
\* migrate to, one of them a thinking model: 0.10 for 3000 tokens is 33.33
\* dollars per million tokens and 66.67 per million output tokens
AlternativeEvents == {
    CheapEvent,
    Event(0, 12, "Included", "gemini-2.5-pro", 20, 1000000, 0, 500000, 500000),
    Event(0, 13, "Included", "claude-4.5-sonnet-thinking", 10, 3000, 0, 1500, 1500) }

MigrationInputs ==
    {[present |-> TRUE, items |-> Copies(PremiumEvents[1], blocks * BulkCopies) \o others] :
        blocks \in 1..MaxBlocks, others \in SeqsUpTo(AlternativeEvents, MaxLen)}

InitMigration ==
    /\ records \in MigrationInputs
    /\ registry = MODEL_REGISTRY
    /\ result = NoResult
    /\ now = 0
    /\ firstRun = NoResult

NextMigration ==
    \/ AnalyzeSavings
    \/ AnalyzeModelEfficiency

SpecMigration == InitMigration /\ [][NextMigration]_vars

\* the cost analysis on collections with one request a day on `n` days, the
\* days running forward or backward, the costs cycling through `cycle`
\* values, and at will one more request on day 0
TopItems(n, forward, cycle, again) ==
    Array([i \in 1..n |->
        StyleEvent(IF forward THEN i - 1 ELSE n - i, 10, 100 * ((i % cycle) + 1))])
    \o Copies(StyleEvent(0, 11, 100), again)

TopInputs ==
    {[present |-> TRUE, items |-> TopItems(n, forward, cycle, again)] :
        n \in 4..MaxTopDays, forward \in BOOLEAN, cycle \in 1..3, again \in 0..1}

InitTop ==
    /\ records \in TopInputs
    /\ registry = MODEL_REGISTRY
    /\ result = NoResult
    /\ now = 0
    /\ firstRun = NoResult

NextTop ==
    \/ AnalyzeCost
    \/ AnalyzePlan

SpecTop == InitTop /\ [][NextTop]_vars

\* the cost and pattern analyses on requests whose timestamps are written with
\* an offset: 23h at -05:00 is 4h UTC of the next day, 2h at +05:00 is 21h UTC
\* of the day before
OffsetEvent(day, hour, tz) ==
    [StyleEvent(day, hour, 100) EXCEPT !.date = [day |-> day, hour |-> hour, tz |-> tz]]

OffsetEvents == {
    OffsetEvent(0, 10, 0),
    OffsetEvent(1, 1, 0),
    OffsetEvent(0, 23, -5),
    OffsetEvent(1, 2, 5) }

OffsetInputs ==
    {[present |-> TRUE, items |-> s] : s \in SeqsUpTo(OffsetEvents, MaxLen) \ {<<>>}}

InitOffsets ==
    /\ records \in OffsetInputs
    /\ registry = MODEL_REGISTRY
    /\ result = NoResult
    /\ now = 0
    /\ firstRun = NoResult

NextOffsets ==
    \/ AnalyzeCost
    \/ AnalyzeUsagePatterns

SpecOffsets == InitOffsets /\ [][NextOffsets]_vars

\* the pattern analysis of a period of quiet days followed by spike days, one
\* request a day: a quiet day costs `quiet` cents, the j-th spike day
\* 1000 + (j - 1) * step cents
MaxQuiet == 30
MaxSpikes == 6

SprintItems(quietDays, quiet, spikes, step) ==
    Array([d \in 1..(quietDays + spikes) |->
        StyleEvent(d - 1, 10, IF d <= quietDays THEN quiet
                              ELSE 1000 + (d - quietDays - 1) * step)])

SprintInputs ==
    {[present |-> TRUE, items |-> SprintItems(quietDays, quiet, spikes, step)] :
        quietDays \in {4, MaxQuiet}, quiet \in {0, 100},
        spikes \in 0..MaxSpikes, step \in {0, 10, 100}}

InitSprints ==
    /\ records \in SprintInputs
    /\ registry = MODEL_REGISTRY
    /\ result = NoResult
    /\ now = 0
    /\ firstRun = NoResult

NextSprints ==
    \/ AnalyzeUsagePatterns
    \/ AnalyzeCost

SpecSprints == InitSprints /\ [][NextSprints]_vars

\* the savings analysis of three days: one on-demand request of `cost` cents
\* and `fillers` free requests of one kind on the first day, one free request
\* on each of the other two; the projected monthly cost is cost / 10 dollars
MaxFillers == 110

TierEvent(day, kind, model, cost) == Event(day, 10, kind, model, cost, 1000, 0, 500, 500)

TierItems(cost, fillers, kind) ==
    <<TierEvent(0, "On-Demand", "claude-4-opus", cost)>>
        \o Copies(TierEvent(0, kind, "grok-code-fast-1", 0), fillers)
        \o <<TierEvent(1, kind, "grok-code-fast-1", 0),
              TierEvent(2, kind, "grok-code-fast-1", 0)>>

TierInputs ==
    {[present |-> TRUE, items |-> TierItems(cost, fillers, kind)] :
        cost \in {100, 1800, 2000, 2001, 2100, 2200, 2201, 3000},
        fillers \in {0, 40, MaxFillers},
        kind \in {"Included", "On-Demand"}}

InitTiers ==
    /\ records \in TierInputs
    /\ registry = MODEL_REGISTRY
    /\ result = NoResult
    /\ now = 0
    /\ firstRun = NoResult

NextTiers ==
    \/ AnalyzeSavings
    \/ AnalyzePlan

SpecTiers == InitTiers /\ [][NextTiers]_vars

\* the cost and the plan analysis on collections of requests that differ in
\* their kind string only
KindInputs == {[present |-> TRUE, items |-> s] : s \in SeqsUpTo(KindEvents, MaxLen)}

InitKinds ==
    /\ records \in KindInputs
    /\ registry = MODEL_REGISTRY
    /\ result = NoResult
    /\ now = 0
    /\ firstRun = NoResult

NextKinds ==
    \/ AnalyzeCost
    \/ AnalyzePlan

SpecKinds == InitKinds /\ [][NextKinds]_vars

----------------------------------------------------------------------------
(* The command-line tool (cli/index.js) and the text formatter it calls *)

\* the command lines tried
CommandLines == {
    <<>>,
    <<"--help">>,
    <<"usage.csv">>,
    <<"usage.csv", "--show-graphs">>,
    <<"usage.csv", "-g">>,
    <<"-g", "usage.csv">>,
    <<"usage.csv", "--json">>,
    <<"usage.csv", "-g", "--json">>,
    <<"usage.csv", "--output", "report.txt">>,
    <<"usage.csv", "-g", "--output", "report.txt">>,
    <<"usage.csv", "--output">>,
    <<"usage.csv", "--verbose">>,
    <<"usage.csv", "other.csv">> }

\* arg.startsWith('-')
StartsWithDash(arg) ==
    arg \in {"--show-graphs", "-g", "--json", "-j", "--output", "-o",
             "--help", "-h", "--version", "-v", "--verbose"}

\* null
NoPath == ""

RECURSIVE parseArgsFrom(_, _, _)
\* the loop of parseArgs from args[i] on; --help and --version print and exit
parseArgsFrom(args, i, parsed) ==
    IF i > Len(args) THEN [outcome |-> "parsed", value |-> parsed]
    ELSE LET arg == args[i]
         IN  IF arg = "--show-graphs" \/ arg = "-g"
             THEN parseArgsFrom(args, i + 1, [parsed EXCEPT !.showGraphs = TRUE])
             ELSE IF arg = "--output" \/ arg = "-o"
             THEN IF i + 1 <= Len(args)
                  THEN parseArgsFrom(args, i + 2, [parsed EXCEPT !.outputFile = args[i + 1]])
                  ELSE [outcome |-> "threw", value |-> parsed]
             ELSE IF arg = "--json" \/ arg = "-j"
             THEN parseArgsFrom(args, i + 1, [parsed EXCEPT !.json = TRUE])
             ELSE IF arg = "--help" \/ arg = "-h" \/ arg = "--version" \/ arg = "-v"
             THEN [outcome |-> "exited", value |-> parsed]
             ELSE IF ~StartsWithDash(arg)
             THEN IF parsed.csvFile = NoPath
                  THEN parseArgsFrom(args, i + 1, [parsed EXCEPT !.csvFile = arg])
                  ELSE [outcome |-> "threw", value |-> parsed]
             ELSE [outcome |-> "threw", value |-> parsed]

parseArgs(argv) ==
    parseArgsFrom(argv, 1,
        [csvFile |-> NoPath, showGraphs |-> FALSE, outputFile |-> NoPath, json |-> FALSE])

\* format(analysisResult, showGraphs = false): the report, and whether its
\* cost and pattern sections were asked to draw charts
TextFormatter_format(analysisResult, showGraphs) ==
    [format |-> "text",
     graphs |-> IF showGraphs.defined THEN showGraphs.value ELSE FALSE,
     total_records |-> analysisResult.metadata.total_records]

\* exportJSON(analysisResult, true)
exportJSON(analysisResult) ==
    [format |-> "json", graphs |-> FALSE,
     total_records |-> analysisResult.metadata.total_records]

NoOutput == [format |-> "none", graphs |-> FALSE, total_records |-> 0]

\* the second argument main hands to formatter.format: it hands none
ShowGraphsArgument(args) == [defined |-> FALSE, value |-> FALSE]

\* one run of the tool: the exit code, what it wrote to stdout or to the
\* output file, and whether it warned that graphs are not implemented
CliRun(argv, args, code, output, warned) ==
    [argv |-> argv, args |-> args, exit |-> code, output |-> output, warned |-> warned]

main(argv, reg, input, generatedAt) ==
    LET parsed == parseArgs(argv)
        args == parsed.value
        analysis == AnalysisEngine_analyze(reg, input, generatedAt)
    IN  IF parsed.outcome = "exited" THEN CliRun(argv, args, 0, NoOutput, FALSE)
        ELSE IF parsed.outcome = "threw" THEN CliRun(argv, args, 1, NoOutput, FALSE)
        ELSE IF args.csvFile = NoPath THEN CliRun(argv, args, 1, NoOutput, FALSE)
        ELSE IF IsEmptyInput(input) THEN CliRun(argv, args, 1, NoOutput, FALSE)
        ELSE IF analysis.threw THEN CliRun(argv, args, 1, NoOutput, FALSE)
        ELSE IF args.json THEN CliRun(argv, args, 0, exportJSON(analysis.value), FALSE)
        ELSE CliRun(argv, args, 0,
                    TextFormatter_format(analysis.value, ShowGraphsArgument(args)),
                    args.showGraphs)

\* the tool reads the file anew on every run and exits
RunCli ==
    \E argv \in CommandLines :
        /\ Invoke("cli", Return(main(argv, registry, records, now)), records)
        /\ UNCHANGED firstRun

\* the records the file of a run holds
CliInputs ==
    {[present |-> TRUE, items |-> <<>>]}
    \cup {[present |-> TRUE, items |-> <<e>>] : e \in {CheapEvent, ErroredEvent}}

InitCli ==
    /\ records \in CliInputs
    /\ registry = MODEL_REGISTRY
    /\ result = NoResult
    /\ now = 0
    /\ firstRun = NoResult

NextCli ==
    \/ RunCli
    \/ AnalyzeEngine

SpecCli == InitCli /\ [][NextCli]_vars

----------------------------------------------------------------------------
(* Properties *)

\* C1: every analyze operation (the six analyzers and the engine) called with
\* an absent or empty collection throws the validation error and returns
\* nothing else.
C1_EmptyInputRejected ==
    (result.op # "none" /\ IsEmptyInput(records))
        => (result.threw /\ result.value = EmptyRecordsError)

\* the engine was handed an empty array and threw
C1_EngineThrewOnEmptyArray ==
    /\ result.op = "engine"
    /\ records.present /\ records.items = <<>>
    /\ result.threw

\* C2: the percentages of breakdown_by_model sum to 100 when the total cost
\* is greater than 0, and every one of them is 0 when the total cost is 0.
C2_ModelPercentagesSumTo100 ==
    (result.op = "cost" /\ ~result.threw) =>
        LET breakdown == result.value.breakdown_by_model
            sum == RSum([i \in 1..Len(breakdown) |-> breakdown[i].percentage])
        IN  IF RGt(result.value.summary.cost.total, Zero)
            THEN sum = Num(100)
            ELSE sum = Zero /\ \A i \in 1..Len(breakdown) : breakdown[i].percentage = Zero

\* two models share a total cost greater than 0
C2_TwoModelsShareTheCost ==
    /\ result.op = "cost" /\ ~result.threw
    /\ Len(result.value.breakdown_by_model) = 2
    /\ RGt(result.value.summary.cost.total, Zero)
    /\ \A i \in 1..2 : RGt(result.value.breakdown_by_model[i].percentage, Zero)

\* C3: the percentages of the three buckets of breakdown_by_type (included,
\* on_demand, errored) sum to 100 when the total cost is greater than 0, and
\* to 0 when the total cost is 0.
C3_TypePercentagesSumTo100 ==
    (result.op = "cost" /\ ~result.threw) =>
        LET byType == result.value.breakdown_by_type
            sum == RAdd(byType.included.percentage,
                        RAdd(byType.on_demand.percentage, byType.errored.percentage))
        IN  IF RGt(result.value.summary.cost.total, Zero)
            THEN sum = Num(100)
            ELSE sum = Zero

C5_EfficiencyScoreInRange ==
    (result.op = "model" /\ ~result.threw) =>
        \A i \in 1..Len(result.value.rankings) :
            /\ RGe(result.value.rankings[i].efficiency_score, Zero)
            /\ RLe(result.value.rankings[i].efficiency_score, Num(100))

\* a thinking model whose score is at the ceiling, next to a model at the floor
C5_ScoresAtBothEnds ==
    /\ result.op = "model" /\ ~result.threw
    /\ \E i \in 1..Len(result.value.rankings) :
           /\ result.value.rankings[i].is_thinking_model
           /\ result.value.rankings[i].efficiency_score = Num(100)
    /\ \E i \in 1..Len(result.value.rankings) :
           result.value.rankings[i].efficiency_score = Zero

\* C6: the monthly savings PlanOptimizer reports is max(0, raw * 0.9), where
\* raw is monthlyCost - 200 when Ultra is recommended, 0 when Pro is and
\* monthlyCost when Free is; it is never negative, and the yearly savings is
\* 12 times the monthly savings.
C6_PlanSavingsAreConservative ==
    (result.op = "plan" /\ ~result.threw) =>
        LET recommendation == result.value.recommendation
            monthlyCost == result.value.actual_monthly_cost
            raw == IF recommendation.recommended_plan = "Ultra"
                   THEN RSub(monthlyCost, Num(200))
                   ELSE IF recommendation.recommended_plan = "Pro" THEN Zero
                   ELSE monthlyCost
        IN  /\ recommendation.recommended_plan \in {"Ultra", "Pro", "Free"}
            /\ RGe(recommendation.savings_monthly, Zero)
            /\ recommendation.savings_monthly = RMax(Zero, RMul(raw, Rat(9, 10)))
            /\ recommendation.savings_yearly
                   = RMul(Num(12), recommendation.savings_monthly)

\* Ultra is recommended with savings greater than 0
C6_UltraSaves ==
    /\ result.op = "plan" /\ ~result.threw
    /\ result.value.recommendation.recommended_plan = "Ultra"
    /\ RGt(result.value.recommendation.savings_monthly, Zero)

\* C7: SavingsOpportunitiesAnalyzer.analyze returns at most 5 opportunities,
\* in non-increasing order of monthly savings, and no candidate left out has
\* strictly greater monthly savings than a returned one.
C7_TopFiveBySavings ==
    (result.op = "savings" /\ ~result.threw) =>
        LET returned == result.value.opportunities
            candidates == SavingsCandidates(registry, records.items)
            Returned(c) == \E i \in 1..Len(returned) : returned[i] = c
        IN  /\ Len(returned) <= 5
            /\ \A i \in 1..Len(returned) : \A j \in 1..Len(returned) :
                   i < j => RGe(returned[i].savings_monthly, returned[j].savings_monthly)
            /\ \A k \in 1..Len(candidates) :
                   ~Returned(candidates[k]) =>
                       \A i \in 1..Len(returned) :
                           ~RGt(candidates[k].savings_monthly, returned[i].savings_monthly)

\* more than 5 candidates were found, so some were left out, and the returned
\* ones do not all save the same
C7_CandidatesLeftOut ==
    /\ result.op = "savings" /\ ~result.threw
    /\ result.value.total_opportunities_found > 5
    /\ Len(result.value.opportunities) = 5
    /\ RGt(result.value.opportunities[1].savings_monthly,
           result.value.opportunities[5].savings_monthly)

\* C8: total_potential_savings_monthly is the sum of savings_monthly over the
\* returned opportunities, not over all the candidates found, and
\* total_potential_savings_yearly is 12 times that total.
C8_TotalsOverReturned ==
    /\ (result.op = "savings" /\ ~result.threw) =>
           LET returned == result.value.opportunities
               total == RSum([i \in 1..Len(returned) |-> returned[i].savings_monthly])
           IN  /\ result.value.total_potential_savings_monthly = total
               /\ result.value.total_potential_savings_yearly = RMul(Num(12), total)
    /\ (result.op = "engine" /\ ~result.threw) =>
           LET returned == result.value.opportunities.list
               total == RSum([i \in 1..Len(returned) |-> returned[i].savings_monthly])
           IN  /\ result.value.opportunities.total_potential_savings_monthly = total
               /\ result.value.opportunities.total_potential_savings_yearly
                      = RMul(Num(12), total)

\* a candidate with savings greater than 0 was left out of the returned list
C8_LeftOutCandidateSaves ==
    /\ result.op = "savings" /\ ~result.threw
    /\ result.value.total_opportunities_found > Len(result.value.opportunities)
    /\ LET candidates == SavingsCandidates(registry, records.items)
       IN  RGt(RSum([k \in 1..Len(candidates) |-> candidates[k].savings_monthly]),
               result.value.total_potential_savings_monthly)

C11_BenchmarkIsBandOfHitRate ==
    (result.op = "cache" /\ ~result.threw) =>
        LET r == result.value.metrics.cache_hit_rate
            benchmark == result.value.benchmark
            band == IF RLt(r, Num(60)) THEN "Poor"
                    ELSE IF RLt(r, Num(75)) THEN "Average"
                    ELSE IF RLt(r, Num(85)) THEN "Good"
                    ELSE IF RLt(r, Num(92)) THEN "Excellent"
                    ELSE "Outstanding"
        IN  /\ benchmark.level = band
            /\ benchmark.threshold_met = RGe(r, Num(85))

\* C12 as stated: two requests with 700 cached and 300 input tokens each give
\* a cache hit rate of 75, the threshold met, and the benchmark "Good".
C12_SeventyFivePercentAndGood ==
    (result.op = "cache" /\ ~result.threw
        /\ records.items = <<CacheEvent(700, 300), CacheEvent(700, 300)>>) =>
        /\ result.value.metrics.cache_hit_rate = Num(75)
        /\ result.value.benchmark.threshold_met
        /\ result.value.benchmark.level = "Good"

\* C12, amended: two requests with 700 cached and 300 input tokens each give
\* a cache hit rate of 70 (1400 of 2000 tokens), in the cache analysis and in
\* the engine's report, and the threshold is not met.
C12_SeventyPercentBelowThreshold ==
    (result.op \in {"cache", "engine"} /\ ~result.threw
        /\ records.items = <<CacheEvent(700, 300), CacheEvent(700, 300)>>) =>
        LET cache == IF result.op = "cache" THEN result.value
                     ELSE result.value.cache_efficiency
        IN  /\ cache.metrics.cache_hit_rate = Num(70)
            /\ ~cache.benchmark.threshold_met

\* the cache analysis has run on the two requests
C12_TwoRequestsAnalysed ==
    /\ result.op = "cache" /\ ~result.threw
    /\ records.items = <<CacheEvent(700, 300), CacheEvent(700, 300)>>
    /\ result.value.metrics.total_cache_tokens = 1400
    /\ result.value.metrics.total_input_tokens = 600

\* C13: in the cost summary, total is the sum of the costs of all the events,
\* days the number of distinct calendar days among them, daily_average is
\* total / days and requests_per_day is the number of requests / days; costs
\* of 10, 20 and 15 over two distinct days give total 45, days 2 and daily
\* average 22.5.
C13_SummaryTotals ==
    (result.op \in {"cost", "engine"} /\ ~result.threw) =>
        LET rs == records.items
            summary == result.value.summary
            n == Len(rs)
            cents == ISum(Array([i \in 1..n |-> rs[i].cost]))
            dates == {rs[i].date.day : i \in 1..n}
            days == Cardinality(dates)
        IN  /\ summary.cost.total = Rat(cents, 100)
            /\ summary.period.days = days
            /\ summary.cost.daily_average = Rat(cents, 100 * days)
            /\ summary.usage.requests_per_day = Rat(n, days)
            /\ ({rs[i].cost : i \in 1..n} = {1000, 2000, 1500} /\ n = 3 /\ days = 2) =>
                    /\ summary.cost.total = Num(45)
                    /\ summary.cost.daily_average = Rat(45, 2)
                    /\ summary.period.days = 2

\* the cost analysis of requests of 10, 20 and 15 dollars on two days
C13_ThreeCostsOnTwoDays ==
    /\ result.op = "cost" /\ ~result.threw
    /\ records.items = <<SummaryEvent(0, 1000), SummaryEvent(0, 2000), SummaryEvent(1, 1500)>>
    /\ result.value.summary.cost.total = Num(45)

\* C14: with monthlyCost = (total / days) * 30, PlanOptimizer recommends
\* Ultra when monthlyCost > 220, Ultra when 180 <= monthlyCost <= 220, Pro
\* when 15 <= monthlyCost < 180 and, when monthlyCost < 15, Free unless the
\* requests projected over 30 days exceed 50, in which case Pro with savings 0.
C14_TierByMonthlyCost ==
    (result.op = "plan" /\ ~result.threw) =>
        LET rs == records.items
            n == Len(rs)
            days == Cardinality({rs[i].date.day : i \in 1..n})
            cents == ISum(Array([i \in 1..n |-> rs[i].cost]))
            monthlyCost == Rat(cents * 30, 100 * days)
            projected == Rat(n * 30, days)
            recommendation == result.value.recommendation
        IN  /\ result.value.actual_monthly_cost = monthlyCost
            /\ RGt(monthlyCost, Num(220)) => recommendation.recommended_plan = "Ultra"
            /\ (RGe(monthlyCost, Num(180)) /\ RLe(monthlyCost, Num(220))) =>
                    recommendation.recommended_plan = "Ultra"
            /\ (RGe(monthlyCost, Num(15)) /\ RLt(monthlyCost, Num(180))) =>
                    recommendation.recommended_plan = "Pro"
            /\ (RLt(monthlyCost, Num(15)) /\ RLe(projected, Num(50))) =>
                    recommendation.recommended_plan = "Free"
            /\ (RLt(monthlyCost, Num(15)) /\ RGt(projected, Num(50))) =>
                    /\ recommendation.recommended_plan = "Pro"
                    /\ recommendation.savings_monthly = Zero

\* a low monthly cost with more than 50 projected requests: Pro, not Free
C14_LowCostOverFreeCap ==
    /\ result.op = "plan" /\ ~result.threw
    /\ RLt(result.value.actual_monthly_cost, Num(15))
    /\ RGt(result.value.request_analysis.monthly_requests, Num(50))
    /\ result.value.recommendation.recommended_plan = "Pro"

\* C19: when 15 <= monthlyCost < 180 and the requests projected over 30 days
\* exceed 500, PlanOptimizer.analyze recommends Pro with savings 0 and its
\* reasoning says that Pro's request limit is exceeded, not that the usage
\* fits within Pro's limits.
C19_OverProCapIsFlagged ==
    (/\ result.op = "plan" /\ ~result.threw
     /\ RGe(result.value.actual_monthly_cost, Num(15))
     /\ RLt(result.value.actual_monthly_cost, Num(180))
     /\ RGt(Rat(Len(records.items) * 30,
                Cardinality({records.items[i].date.day : i \in 1..Len(records.items)})),
            Num(500))) =>
        LET recommendation == result.value.recommendation
            said == {recommendation.reasoning[i] : i \in 1..Len(recommendation.reasoning)}
        IN  /\ recommendation.recommended_plan = "Pro"
            /\ recommendation.savings_monthly = Zero
            /\ "exceeding-pro-limit-consider-ultra" \in said
            /\ "fits-within-pro-limits" \notin said

\* C15: an error-reduction opportunity is produced exactly when more than 3%
\* of the events failed (none at exactly 3%); 90 included and 10 errored
\* events give a returned opportunity with current_error_rate = 10.
C15_ErrorReductionAboveThreePercent ==
    (result.op = "savings" /\ ~result.threw
        /\ result.value.total_opportunities_found <= TopLimit) =>
        LET rs == records.items
            n == Len(rs)
            failed == Cardinality({i \in 1..n : isErrored(rs[i])})
            returned == result.value.opportunities
            found == {i \in 1..Len(returned) : returned[i].type = "error_reduction"}
        IN  /\ (found # {}) <=> (failed * 100 > 3 * n)
            /\ \A i \in found : returned[i].current_rate = Rat(failed * 100, n)
            /\ (n = 100 /\ failed = 10) =>
                    \E i \in found : returned[i].current_rate = Num(10)

\* the analysis of 90 included and 10 errored events has returned an
\* error-reduction opportunity
C15_NinetyIncludedTenErrored ==
    /\ result.op = "savings" /\ ~result.threw
    /\ records.items = Copies(CheapEvent, 90) \o Copies(ErroredEvent, 10)
    /\ \E i \in 1..Len(result.value.opportunities) :
            result.value.opportunities[i].type = "error_reduction"

\* C16: every opportunity SavingsOpportunitiesAnalyzer.analyze returns, of
\* whatever kind, has monthly savings >= 0 and yearly savings >= 0.
C16_SavingsNeverNegative ==
    (result.op = "savings" /\ ~result.threw) =>
        \A i \in 1..Len(result.value.opportunities) :
            LET opp == result.value.opportunities[i]
            IN  /\ opp.type \in {OPPORTUNITY_TYPES[k] : k \in DOMAIN OPPORTUNITY_TYPES}
                /\ RGe(opp.savings_monthly, Zero)
                /\ RGe(opp.savings_yearly, Zero)

\* the analysis has returned opportunities of two kinds for a collection
\* whose expensive model is cheaper per request than the alternative, so that
\* migrating would cost money
C16_CheaperExpensiveModelAnalysed ==
    /\ result.op = "savings" /\ ~result.threw
    /\ \E i \in 1..Len(records.items) : records.items[i] = LowCostPremiumEvent
    /\ Cardinality({result.value.opportunities[i].type :
                       i \in 1..Len(result.value.opportunities)}) >= 2

\* C18: a run of the command-line tool with --show-graphs or -g and without
\* --json that analyses its file and reports writes text output for which the
\* text formatter was invoked with graphs switched on.
C18_ShowGraphsReachesFormatter ==
    (/\ result.op = "cli"
     /\ result.value.exit = 0
     /\ result.value.output.format # "none"
     /\ \E i \in 1..Len(result.value.argv) : result.value.argv[i] \in {"--show-graphs", "-g"}
     /\ result.value.args.showGraphs
     /\ ~result.value.args.json) =>
        /\ result.value.output.format = "text"
        /\ result.value.output.graphs

\* C17: the work style of a non-empty collection has a non-empty style set
\* that holds its primary style, and the set is exactly the styles whose rule
\* matches: night coder when the UTC hours 18-23 hold more than 40% of the
\* requests, weekend warrior when Saturday and Sunday hold more than 20%,
\* sprint worker when the coefficient of variation of the daily costs is above
\* 0.5 and the period is longer than 7 days, steady user when it is below 0.3
\* and the period is longer than 7 days; steady user alone when none matches.
C17_StylesAreTheMatchingRules ==
    (result.op = "patterns" /\ ~result.threw) =>
        LET rs == records.items
            n == Len(rs)
            evening == Cardinality({i \in 1..n : getUTCHours(rs[i]) \in 18..23})
            weekend == Cardinality({i \in 1..n : getUTCWeekday(rs[i]) \in {0, 6}})
            period == Cardinality({getDateOnly(rs[i]) : i \in 1..n})
            dayset == {getUTCDay(rs[i]) : i \in 1..n}
            k == Cardinality(dayset)
            CostOn(d) == LET On(r) == getUTCDay(r) = d IN CostCents(SelectSeq(rs, On))
            S == ISum(Array([d \in 1..(SetMax(dayset) + 1) |->
                     IF (d - 1) \in dayset THEN CostOn(d - 1) ELSE 0]))
            Q == ISum(Array([d \in 1..(SetMax(dayset) + 1) |->
                     IF (d - 1) \in dayset THEN CostOn(d - 1) * CostOn(d - 1) ELSE 0]))
            \* variance / mean^2 = (k * Q - S^2) / S^2
            expected ==
                {st \in {"night_coder", "weekend_warrior", "sprint_worker", "steady_user"} :
                    \/ st = "night_coder" /\ evening * 100 > 40 * n
                    \/ st = "weekend_warrior" /\ weekend * 100 > 20 * n
                    \/ st = "sprint_worker" /\ period > 7
                          /\ S > 0 /\ 4 * (k * Q - S * S) > S * S
                    \/ st = "steady_user" /\ period > 7
                          /\ (S = 0 \/ 100 * (k * Q - S * S) < 9 * S * S)}
            workStyle == result.value.work_style
            styles == {workStyle.styles[i] : i \in 1..Len(workStyle.styles)}
        IN  /\ Len(workStyle.styles) > 0
            /\ workStyle.primary_style \in styles
            /\ styles = IF expected = {} THEN {"steady_user"} ELSE expected

\* the analysis of eight days of which a weekend holds exactly a fifth of the
\* requests has found the sprint worker alone
C17_SprintOverEightDays ==
    /\ result.op = "patterns" /\ ~result.threw
    /\ Len(records.items) = 10
    /\ Cardinality({i \in 1..Len(records.items) :
                       getUTCWeekday(records.items[i]) \in {0, 6}}) = 2
    /\ result.value.work_style.styles = <<"sprint_worker">>

\* C20 as stated: the efficiency score of a model equals
\* clamp(100 - c/10, 0, 100), where c is its cost per million tokens, or, for
\* a thinking model, clamp((100 - c/10) * 1.2, 0, 100) with c its cost per
\* million output tokens.
C20_ScoreIsTheClampedValue ==
    (result.op = "model" /\ ~result.threw) =>
        \A i \in 1..Len(result.value.rankings) :
            LET m == result.value.rankings[i]
                rs == RecordsOfModel(records.items, m.model)
                tokens == IF m.is_thinking_model THEN SumField(rs, OutputOf)
                          ELSE SumField(rs, TotalTokensOf)
                c == IF tokens = 0 THEN Zero ELSE Rat(CostCents(rs) * 10000, tokens)
                base == RSub(Num(100), RDiv(c, Num(10)))
                raw == IF m.is_thinking_model THEN RMul(base, Rat(12, 10)) ELSE base
                clamped == IF RLt(raw, Zero) THEN Zero
                           ELSE IF RGt(raw, Num(100)) THEN Num(100) ELSE raw
            IN  m.efficiency_score = clamped

\* C20, amended: the efficiency score is that clamped value rounded to two
\* decimal places (halves up): a whole number of hundredths within half a
\* hundredth of it; cost 0.10 over 1,000,000 tokens gives 99.99.
C20_ScoreIsTheClampedValueRounded ==
    (result.op = "model" /\ ~result.threw) =>
        \A i \in 1..Len(result.value.rankings) :
            LET m == result.value.rankings[i]
                rs == RecordsOfModel(records.items, m.model)
                tokens == IF m.is_thinking_model THEN SumField(rs, OutputOf)
                          ELSE SumField(rs, TotalTokensOf)
                c == IF tokens = 0 THEN Zero ELSE Rat(CostCents(rs) * 10000, tokens)
                base == RSub(Num(100), RDiv(c, Num(10)))
                raw == IF m.is_thinking_model THEN RMul(base, Rat(12, 10)) ELSE base
                clamped == IF RLt(raw, Zero) THEN Zero
                           ELSE IF RGt(raw, Num(100)) THEN Num(100) ELSE raw
                score == m.efficiency_score
            IN  /\ RMul(score, Num(100))[2] = 1
                /\ RLe(RSub(score, Rat(1, 200)), clamped)
                /\ RLt(clamped, RAdd(score, Rat(1, 200)))
                /\ (~m.is_thinking_model /\ CostCents(rs) = 10 /\ tokens = Million) =>
                        score = Rat(9999, 100)

\* the analysis has scored a model whose clamped value, 88.333..., is not a
\* whole number of hundredths, next to a thinking model boosted to the ceiling
C20_ScoresThatNeedRounding ==
    /\ result.op = "model" /\ ~result.threw
    /\ \E i \in 1..Len(result.value.rankings) :
           /\ ~result.value.rankings[i].is_thinking_model
           /\ result.value.rankings[i].efficiency_score = Rat(8833, 100)
    /\ \E i \in 1..Len(result.value.rankings) :
           /\ result.value.rankings[i].is_thinking_model
           /\ result.value.rankings[i].efficiency_score = Num(100)

\* C21 as stated: the category of a model is the band of the cost its score
\* is based on (per million total tokens, or per million output tokens for a
\* thinking model): cost_efficient below 50, specialized below 500, premium
\* otherwise.
C21_CategoryByScoreBasis ==
    (result.op = "model" /\ ~result.threw) =>
        \A i \in 1..Len(result.value.rankings) :
            LET m == result.value.rankings[i]
                rs == RecordsOfModel(records.items, m.model)
                tokens == IF m.is_thinking_model THEN SumField(rs, OutputOf)
                          ELSE SumField(rs, TotalTokensOf)
                c == IF tokens = 0 THEN Zero ELSE Rat(CostCents(rs) * 10000, tokens)
            IN  m.category = IF RLt(c, Num(50)) THEN "cost_efficient"
                             ELSE IF RLt(c, Num(500)) THEN "specialized"
                             ELSE "premium"

\* C21, amended: the category of every model, thinking or not, is the band of
\* its cost per million total tokens: cost_efficient below 50, specialized
\* below 500, premium otherwise.
C21_CategoryByTotalTokens ==
    (result.op = "model" /\ ~result.threw) =>
        \A i \in 1..Len(result.value.rankings) :
            LET m == result.value.rankings[i]
                rs == RecordsOfModel(records.items, m.model)
                tokens == SumField(rs, TotalTokensOf)
                c == IF tokens = 0 THEN Zero ELSE Rat(CostCents(rs) * 10000, tokens)
            IN  m.category = IF RLt(c, Num(50)) THEN "cost_efficient"
                             ELSE IF RLt(c, Num(500)) THEN "specialized"
                             ELSE "premium"

\* a thinking model that costs less than 50 per million tokens and more than
\* 50 per million output tokens has been ranked
C21_ThinkingModelBetweenTheBases ==
    /\ result.op = "model" /\ ~result.threw
    /\ \E i \in 1..Len(result.value.rankings) :
           LET m == result.value.rankings[i]
           IN  /\ m.is_thinking_model
               /\ RLt(m.cost_per_million_tokens, Num(50))
               /\ RGt(m.cost_per_million_output_tokens, Num(50))
               /\ m.category = "cost_efficient"

\* C22 as stated: the to_model of every model-migration opportunity is the
\* cheapest of the models that are cost_efficient and cost less than 100 per
\* million tokens: none of them costs less per million tokens.
C22_TargetIsCheapest ==
    (result.op = "savings" /\ ~result.threw) =>
        LET rankings == ModelAnalysis(registry, records.items).rankings
            eligible == {i \in 1..Len(rankings) :
                            /\ rankings[i].category = "cost_efficient"
                            /\ RLt(rankings[i].cost_per_million_tokens, Num(100))}
        IN  \A k \in 1..Len(result.value.opportunities) :
                result.value.opportunities[k].type = "model_migration" =>
                    \E t \in eligible :
                        /\ rankings[t].model = result.value.opportunities[k].to_model
                        /\ \A i \in eligible :
                               RLe(rankings[t].cost_per_million_tokens,
                                   rankings[i].cost_per_million_tokens)

\* C22, amended: the to_model of every model-migration opportunity is the
\* best ranked of the models that are cost_efficient and cost less than 100
\* per million tokens: none of them has a higher efficiency score.
C22_TargetIsMostEfficient ==
    (result.op = "savings" /\ ~result.threw) =>
        LET rankings == ModelAnalysis(registry, records.items).rankings
            eligible == {i \in 1..Len(rankings) :
                            /\ rankings[i].category = "cost_efficient"
                            /\ RLt(rankings[i].cost_per_million_tokens, Num(100))}
        IN  \A k \in 1..Len(result.value.opportunities) :
                result.value.opportunities[k].type = "model_migration" =>
                    \E t \in eligible :
                        /\ rankings[t].model = result.value.opportunities[k].to_model
                        /\ \A i \in eligible :
                               RGe(rankings[t].efficiency_score,
                                   rankings[i].efficiency_score)

\* a migration to the thinking model has been returned although a cheaper
\* cost-efficient model was in the data
C22_MigrationToBoostedModel ==
    /\ result.op = "savings" /\ ~result.threw
    /\ \E i \in 1..Len(records.items) : records.items[i] = CheapEvent
    /\ \E k \in 1..Len(result.value.opportunities) :
           /\ result.value.opportunities[k].type = "model_migration"
           /\ result.value.opportunities[k].to_model = "claude-4.5-sonnet-thinking"

\* C23 as stated: top_expensive_requests and top_expensive_days hold the (at
\* most) 5 costliest events, respectively days, in non-increasing cost order,
\* and entries of equal cost appear in the order in which they first occur in
\* the input.
C23_TopFiveTiesAsFirstSeen ==
    (result.op = "cost" /\ ~result.threw) =>
        LET rs == records.items
            n == Len(rs)
            First(d) == CHOOSE i \in 1..n : /\ getDateOnly(rs[i]) = d
                                             /\ \A j \in 1..(i - 1) : getDateOnly(rs[j]) # d
            requests == result.value.top_expensive_requests
            days == result.value.top_expensive_days
        IN  /\ \A a, b \in 1..Len(requests) :
                   a < b => \/ RGt(requests[a].cost, requests[b].cost)
                            \/ /\ requests[a].cost = requests[b].cost
                               /\ requests[a].row_number < requests[b].row_number
            /\ \A a, b \in 1..Len(days) :
                   a < b => \/ RGt(days[a].cost, days[b].cost)
                            \/ /\ days[a].cost = days[b].cost
                               /\ First(days[a].date) < First(days[b].date)

\* C23, amended: top_expensive_requests and top_expensive_days hold the (at
\* most) 5 costliest events, respectively days, in non-increasing cost order;
\* events of equal cost appear in input order and days of equal cost in
\* ascending date order, and no event or day left out precedes a listed one
\* in that order.
C23_TopFiveTiesByRowAndDate ==
    (result.op = "cost" /\ ~result.threw) =>
        LET rs == records.items
            n == Len(rs)
            dayset == {getDateOnly(rs[i]) : i \in 1..n}
            CostOn(d) == LET On(r) == getDateOnly(r) = d
                         IN  Dollars(CostCents(SelectSeq(rs, On)))
            requests == result.value.top_expensive_requests
            days == result.value.top_expensive_days
            rows == {requests[a].row_number : a \in 1..Len(requests)}
            listed == {days[a].date : a \in 1..Len(days)}
        IN  /\ Len(requests) = IF n < TopLimit THEN n ELSE TopLimit
            /\ Len(days) = IF Cardinality(dayset) < TopLimit
                           THEN Cardinality(dayset) ELSE TopLimit
            /\ \A a \in 1..Len(requests) :
                   /\ requests[a].row_number \in 1..n
                   /\ requests[a].cost = Dollars(rs[requests[a].row_number].cost)
            /\ \A a \in 1..Len(days) :
                   days[a].date \in dayset /\ days[a].cost = CostOn(days[a].date)
            /\ \A a, b \in 1..Len(requests) :
                   a < b => \/ RGt(requests[a].cost, requests[b].cost)
                            \/ /\ requests[a].cost = requests[b].cost
                               /\ requests[a].row_number < requests[b].row_number
            /\ \A a, b \in 1..Len(days) :
                   a < b => \/ RGt(days[a].cost, days[b].cost)
                            \/ /\ days[a].cost = days[b].cost
                               /\ days[a].date < days[b].date
            /\ \A j \in (1..n) \ rows : \A a \in 1..Len(requests) :
                   \/ RLt(Dollars(rs[j].cost), requests[a].cost)
                   \/ Dollars(rs[j].cost) = requests[a].cost /\ requests[a].row_number < j
            /\ \A d \in dayset \ listed : \A a \in 1..Len(days) :
                   \/ RLt(CostOn(d), days[a].cost)
                   \/ CostOn(d) = days[a].cost /\ days[a].date < d

\* the analysis of seven days of equal cost given latest day first has
\* listed five of them
C23_EqualDaysGivenBackward ==
    /\ result.op = "cost" /\ ~result.threw
    /\ records.items = TopItems(7, FALSE, 1, 0)
    /\ Len(result.value.top_expensive_days) = TopLimit
    /\ Len(result.value.top_expensive_requests) = TopLimit

\* C24: when the cache hit rate r of the collection is below 75 (the Poor and
\* Average bands), the feedback CacheEfficiencyAnalyzer.analyze returns
\* carries a projected saving, which is positive when the collection cost
\* anything.
C24_LowRateFeedbackProjectsSaving ==
    (result.op = "cache" /\ ~result.threw) =>
        LET rs == records.items
            cached == SumField(rs, CacheReadOf)
            fresh == SumField(rs, InputOf)
            feedback == result.value.feedback
        IN  (cached + fresh > 0 /\ cached * 100 < 75 * (cached + fresh)) =>
                /\ feedback.potential_savings.present
                /\ CostCents(rs) > 0 => RGt(feedback.potential_savings.monthly, Zero)

\* C25 as stated: the pattern recommendations hold exactly one recommendation
\* for each style of the style set, plus one for the top sprint day exactly
\* when a sprint was detected.
C25_OneRecommendationPerStyle ==
    (result.op = "patterns" /\ ~result.threw) =>
        LET styles == result.value.work_style.styles
            recommendations == result.value.recommendations
            TitleOf(st) == IF st = "night_coder" THEN "night-coding"
                           ELSE IF st = "weekend_warrior" THEN "weekend-warrior"
                           ELSE IF st = "sprint_worker" THEN "sprint-worker"
                           ELSE "steady-usage"
            titled == {recommendations[i].title : i \in 1..Len(recommendations)}
        IN  /\ Len(recommendations) =
                   Len(styles) + IF Len(result.value.sprints) > 0 THEN 1 ELSE 0
            /\ \A i \in 1..Len(styles) : TitleOf(styles[i]) \in titled
            /\ ("sprint-detected" \in titled) <=> (Len(result.value.sprints) > 0)

\* C25, amended: the pattern recommendations hold exactly one recommendation
\* for each style of the style set, for the steady user only when it is the
\* primary style, plus one for the top sprint day exactly when a sprint was
\* detected.
C25_OneRecommendationPerStyleSteadyIfPrimary ==
    (result.op = "patterns" /\ ~result.threw) =>
        LET workStyle == result.value.work_style
            recommendations == result.value.recommendations
            TitleOf(st) == IF st = "night_coder" THEN "night-coding"
                           ELSE IF st = "weekend_warrior" THEN "weekend-warrior"
                           ELSE IF st = "sprint_worker" THEN "sprint-worker"
                           ELSE "steady-usage"
            counted == {i \in 1..Len(workStyle.styles) :
                           workStyle.styles[i] = "steady_user" =>
                               workStyle.primary_style = "steady_user"}
            titled == {recommendations[i].title : i \in 1..Len(recommendations)}
        IN  /\ Len(recommendations) =
                   Cardinality(counted) + IF Len(result.value.sprints) > 0 THEN 1 ELSE 0
            /\ titled = {TitleOf(workStyle.styles[i]) : i \in counted}
                           \cup (IF Len(result.value.sprints) > 0
                                 THEN {"sprint-detected"} ELSE {})
            /\ Len(result.value.sprints) > 0 =>
                   /\ recommendations[Len(recommendations)].sprint.sprint_date
                          = result.value.sprints[1].date
                   /\ recommendations[Len(recommendations)].sprint.sprint_cost
                          = result.value.sprints[1].cost

\* a night coder who is also a steady user has been analysed
C25_SteadyButNotPrimary ==
    /\ result.op = "patterns" /\ ~result.threw
    /\ result.value.work_style.primary_style = "night_coder"
    /\ \E i \in 1..Len(result.value.work_style.styles) :
           result.value.work_style.styles[i] = "steady_user"

\* C26: the daily aggregates of the cost analysis are per UTC calendar day:
\* there is one entry for each UTC day on which a timestamp falls, holding
\* the requests and the cost of that UTC day, and the number of distinct days
\* is the number of those UTC days.
C26_DailyEntriesPerUTCDay ==
    (result.op = "cost" /\ ~result.threw) =>
        LET rs == records.items
            utcDays == {getUTCDay(rs[i]) : i \in 1..Len(rs)}
            OnDay(d) == LET On(r) == getUTCDay(r) = d IN SelectSeq(rs, On)
            daily == result.value.daily_costs
        IN  /\ Len(daily) = Cardinality(utcDays)
            /\ result.value.summary.period.days = Cardinality(utcDays)
            /\ \A d \in utcDays : \E k \in 1..Len(daily) :
                   /\ daily[k].request_count = Len(OnDay(d))
                   /\ daily[k].cost = SumCost(OnDay(d))

\* C27: the sprints of the pattern analysis are exactly the UTC days whose
\* cost is strictly greater than the mean plus two population standard
\* deviations of the per-day costs, limited to the five costliest in
\* descending order of cost; each comes with its cost, its requests, its
\* deviation cost - mean and that deviation as a percentage of the mean.
C27_SprintsAreDaysAboveTwoSigma ==
    (result.op = "patterns" /\ ~result.threw) =>
        LET rs == records.items
            ds == UTCDaysOf(rs)
            k == Len(ds)
            OnDay(d) == LET On(r) == getUTCDay(r) = d IN SelectSeq(rs, On)
            Cents(d) == CostCents(OnDay(d))
            mean == Rat(CostCents(rs), 100 * k)
            meanOfSquares ==
                RDiv(RSum(Array([i \in 1..k |-> Square(Dollars(Cents(ds[i])))])), Num(k))
            variance == RSub(meanOfSquares, Square(mean))
            above == {d \in {ds[i] : i \in 1..k} :
                         /\ RGt(Dollars(Cents(d)), mean)
                         /\ RGt(Square(RSub(Dollars(Cents(d)), mean)),
                                RMul(Num(4), variance))}
            sprints == result.value.sprints
            reported == {sprints[i].date : i \in 1..Len(sprints)}
        IN  /\ Len(sprints) = IF Cardinality(above) < 5 THEN Cardinality(above) ELSE 5
            /\ Cardinality(reported) = Len(sprints)
            /\ reported \subseteq above
            /\ \A i \in 1..Len(sprints) : \A d \in above \ reported :
                   Cents(d) <= Cents(sprints[i].date)
            /\ \A i, j \in 1..Len(sprints) :
                   i < j => Cents(sprints[i].date) >= Cents(sprints[j].date)
            /\ \A i \in 1..Len(sprints) :
                   LET c == Cents(sprints[i].date)
                   IN  /\ sprints[i].cost = Rat(c, 100)
                       /\ sprints[i].requests = Len(OnDay(sprints[i].date))
                       /\ sprints[i].deviation = RSub(Dollars(c), mean)
                       /\ RMul(sprints[i].deviation_percentage, mean)
                              = RMul(Num(100), RSub(Dollars(c), mean))

\* six days of different costs lie above the threshold and the five costliest
\* of them are reported
C27_SixDaysAboveFiveReported ==
    /\ result.op = "patterns" /\ ~result.threw
    /\ records.items = SprintItems(MaxQuiet, 100, 6, 10)
    /\ Len(result.value.sprints) = 5
    /\ result.value.sprints[1].date = MaxQuiet + 5
    /\ result.value.sprints[5].date = MaxQuiet + 1

\* C28: in the result of the engine the opportunities agree with the other
\* sections: a listed plan opportunity carries the monthly and yearly savings
\* of plan_recommendation, whose plans differ, and a listed cache opportunity
\* has the cache hit rate of cache_efficiency as its current rate; when the
\* list is not full, a plan opportunity is listed whenever plan_recommendation
\* has positive savings for another plan, and a cache opportunity whenever
\* the cache hit rate of cache_efficiency is below 75.
C28_OpportunitiesAgreeWithSections ==
    (result.op = "engine" /\ ~result.threw) =>
        LET list == result.value.opportunities.list
            plan == result.value.plan_recommendation
            cache == result.value.cache_efficiency
            OfType(t) == {i \in 1..Len(list) : list[i].type = t}
        IN  /\ \A i \in OfType("plan_optimization") :
                   /\ list[i].savings_monthly = plan.savings_monthly
                   /\ list[i].savings_yearly = plan.savings_yearly
                   /\ plan.current_plan # plan.recommended_plan
            /\ \A i \in OfType("cache_optimization") :
                   /\ list[i].current_rate = cache.metrics.cache_hit_rate
                   /\ RLt(cache.metrics.cache_hit_rate, Num(75))
            /\ Len(list) < 5 =>
                   /\ (RGt(plan.savings_monthly, Zero)
                           /\ plan.current_plan # plan.recommended_plan)
                          => Cardinality(OfType("plan_optimization")) = 1
                   /\ RLt(cache.metrics.cache_hit_rate, Num(75))
                          => Cardinality(OfType("cache_optimization")) = 1

\* the engine has listed a plan opportunity with savings together with a
\* cache opportunity
C28_PlanAndCacheOpportunityListed ==
    /\ result.op = "engine" /\ ~result.threw
    /\ \E i, j \in 1..Len(result.value.opportunities.list) :
           /\ result.value.opportunities.list[i].type = "plan_optimization"
           /\ RGt(result.value.opportunities.list[i].savings_monthly, Zero)
           /\ result.value.opportunities.list[j].type = "cache_optimization"

C30_OneBucketPerEvent ==
    (result.op = "cost" /\ ~result.threw) =>
        LET rs == records.items
            Has(i, word) == includes(toLowerCase(rs[i].kind), word)
            named == {i \in 1..Len(rs) :
                         \/ Has(i, "included") \/ Has(i, "on-demand")
                         \/ Has(i, "errored") \/ Has(i, "aborted")}
            asIncluded == {i \in 1..Len(rs) : Has(i, "included")}
            asOnDemand == {i \in 1..Len(rs) : ~Has(i, "included") /\ Has(i, "on-demand")}
            asErrored == {i \in 1..Len(rs) :
                             /\ ~Has(i, "included") /\ ~Has(i, "on-demand")
                             /\ (Has(i, "errored") \/ Has(i, "aborted"))}
            byType == result.value.breakdown_by_type
            counted == byType.included.request_count + byType.on_demand.request_count
                           + byType.errored.request_count
        IN  /\ byType.included.request_count = Cardinality(asIncluded)
            /\ byType.on_demand.request_count = Cardinality(asOnDemand)
            /\ byType.errored.request_count = Cardinality(asErrored)
            /\ counted <= Len(rs)
            /\ (counted = Len(rs)) <=> (Cardinality(named) = Len(rs))

\* a request whose kind names two buckets and one whose kind names none have
\* been analysed: one of the two is counted
C30_TwoWordsAndNoWord ==
    /\ result.op = "cost" /\ ~result.threw
    /\ records.items = <<KindEvent("Errored, Included"), KindEvent("Usage-based")>>
    /\ result.value.breakdown_by_type.included.request_count = 1
    /\ result.value.breakdown_by_type.errored.request_count = 0

====
